---- MODULE Spec2Model ----
(***************************************************************************)
(* Model of the Google Calendar MCP server (src/app.js):                   *)
(*   - the conflict engine detectEventConflicts and the create_event /     *)
(*     update_event / detect_conflicts handlers that call it;              *)
(*   - the duplicate engine findDuplicateEvents, and calculateSimilarity    *)
(*     and arePotentialDuplicates on their own;                            *)
(*   - createEventException and deleteEventInstance;                       *)
(*   - batchOperations;                                                    *)
(*   - sendNotification and processReminders (notifications.js) with the   *)
(*     table reminders_sent (db.js);                                       *)
(*   - the OAuth tokens, the API keys (db.js) and the authentication of    *)
(*     POST /mcp/execute;                                                  *)
(*   - the handler of POST /webhook/calendar and its sync token.           *)
(* Instants are whole hours (what new Date(x) yields, divided by 3600000). *)
(* Strings are sequences of one-character strings.                         *)
(***************************************************************************)
EXTENDS Integers, Sequences, FiniteSets, TLC

VARIABLES
    calendar,      \* the events held by the calendar gateway, a sequence
    nextId,        \* the id the gateway gives to the next inserted event
    pc,            \* per request: "idle", "get", "list", "insert", "update", "done"
    action,        \* per request: the action name of /mcp/execute
    params,        \* per request: the parameters of the action
    items,         \* per request: response.data.items of calendar.events.list
    conflicts,     \* per request: what detectEventConflicts returned
    eventUpdate,   \* per request: updateEvent's merged event
    outcome,       \* per request: the HTTP response of /mcp/execute
    listCalls,     \* per request: number of calendar.events.list calls issued
    writeCalls,    \* per request: number of calendar.events.insert/update calls issued
    scanned,       \* per request: the scan loop of detectEventConflicts has run
    dEvents,       \* findDuplicateEvents: response.data.items
    dThreshold,    \* findDuplicateEvents: similarityThreshold, in tenths
    dI,            \* findDuplicateEvents: outer loop index i (1-based)
    dJ,            \* findDuplicateEvents: inner loop index j (1-based)
    duplicates,    \* findDuplicateEvents: the group being built (event indexes)
    processedEvents, \* findDuplicateEvents: the Set of processed event ids
    duplicateGroups, \* findDuplicateEvents: the groups emitted so far
    dPc,           \* findDuplicateEvents: "off", "outer", "inner", "emit", "done"
    dResult,       \* findDuplicateEvents: the fields of the returned object
    simStr1,       \* calculateSimilarity: str1
    simStr2,       \* calculateSimilarity: str2
    simStartDiff,  \* arePotentialDuplicates: start of event2 minus start of event1, hours
    simThreshold,  \* arePotentialDuplicates: threshold, in tenths
    simPc,         \* "off", "call", "done"
    simScore,      \* calculateSimilarity(str1, str2), a fraction
    simScoreSwapped, \* calculateSimilarity(str2, str1), a fraction
    simDistance,   \* calculateSimilarity(str1, str2) filled the distance table
    simPair,       \* arePotentialDuplicates(event1, event2, threshold)
    simPairSwapped, \* arePotentialDuplicates(event2, event1, threshold)
    recAction,     \* "create_event_exception" or "delete_event_instance"
    recMaster,     \* the gateway's event with id recurringEventId
    recItems,      \* the gateway's enumeration of the instances of recurringEventId
    recTarget,     \* the parameter originalStartTime
    recPc,         \* "off", "call", "get", "instances", "write", "done"
    recInstance,   \* instanceToModify / instanceToDelete: its index in the enumeration
    recCalls,      \* the gateway calls issued, in order: <<operation, eventId>>
    recOutcome,    \* what the function returned or threw
    bIsArray,      \* batchOperations: Array.isArray(operations)
    bOps,          \* batchOperations: operations
    bCalendar,     \* the events held by the calendar gateway during the batch
    bCalendar0,    \* the events the gateway held when the batch began
    bNextId,       \* the id the gateway gives to the next inserted event
    bI,            \* batchOperations: loop index i (1-based)
    bResults,      \* batchOperations: results
    bPc,           \* "off", "call", "loop", "done"
    bReturn,       \* what batchOperations returned or threw
    bGatewayLog,   \* the indexes of the sub-actions that called the gateway, in order
    nEnv,          \* sendNotification: process.env.NODE_ENV
    nAddress,      \* sendNotification: address
    nMaxRetries,   \* sendNotification: maxRetries
    nAttempts,     \* sendNotification: attempts
    nLastError,    \* sendNotification: lastError
    nLog,          \* how each fetch of the call settled, in order
    nPc,           \* "off", "call", "loop", "fetch", "delay", "done"
    nResult,       \* what sendNotification returned or threw
    remindersSent, \* the table reminders_sent: pairs <<webhook_id, event_id>>
    delivered,     \* the reminder notifications a webhook address accepted, in order
    rPc,           \* per run: "idle", "list", "read", "send", "record", "done"
    rWebhook,      \* per run: webhookId
    rItems,        \* per run: the ids of response.data.items
    rSentRead,     \* per run: sentReminders
    rTableAtRead,  \* per run: the rows of reminders_sent when the run read it
    rUpcoming,     \* per run: the ids of upcomingEvents
    rSaved,        \* per run: the ids the run passed to saveReminderSent
    rOutcome,      \* per run: how processReminders settled
    tokens,        \* app.js: let tokens, "null", "fresh" or "expired"
    dbTokens,      \* the tokens row of the database, likewise
    apiKeys,       \* the table api_keys, by id
    clock,         \* the time, a day and an hour of the day
    revokedKeys,   \* the ids for which revokeApiKey resolved true
    aPc,           \* the request: "off", "idle", "key", "handler", "refresh", "action", "done"
    aKey,          \* the request: the id of the key in X-API-Key, 0 when absent
    aWellFormed,   \* the request: express-validator found no error
    aKeyStanding,  \* the request: what the presented key was when it was validated
    aKeyAccepted,  \* the request: what validateApiKey resolved to
    aTokensSeen,   \* the request: tokens when the request was answered or let through
    aResponse,     \* the request: the response
    aExecuted,     \* the request: the handler reached the action switch
    lPc,           \* GET /logout: "idle", "revoke", "delete", "done"
    lResult,       \* GET /logout: what revokeTokens returned, and why
    wHead,         \* the number of changes the calendar has seen; change c is the c-th
    wSyncToken,    \* the stored sync token of the channel: the changes it covers, or NoSyncToken
    wTokenRead,    \* the handler: syncToken
    wItems,        \* the handler: the changes in response.data.items
    wFetched,      \* the changes some list call of the handler returned
    wDelivered,    \* the changes some notification the webhook address accepted held
    wPc            \* the handler: "off", "idle", "list", "send", "done"

schedVars == <<calendar, nextId, pc, action, params, items, conflicts, eventUpdate,
               outcome, listCalls, writeCalls, scanned>>
dupVars == <<dEvents, dThreshold, dI, dJ, duplicates, processedEvents,
             duplicateGroups, dPc, dResult>>
simVars == <<simStr1, simStr2, simStartDiff, simThreshold, simPc, simScore,
             simScoreSwapped, simDistance, simPair, simPairSwapped>>
recVars == <<recAction, recMaster, recItems, recTarget, recPc, recInstance, recCalls,
             recOutcome>>
batchVars == <<bIsArray, bOps, bCalendar, bCalendar0, bNextId, bI, bResults, bPc,
               bReturn, bGatewayLog>>
notifyVars == <<nEnv, nAddress, nMaxRetries, nAttempts, nLastError, nLog, nPc, nResult>>
remVars == <<remindersSent, delivered, rPc, rWebhook, rItems, rSentRead, rTableAtRead,
             rUpcoming, rSaved, rOutcome>>
authVars == <<tokens, dbTokens, apiKeys, clock, revokedKeys, aPc, aKey, aWellFormed,
              aKeyStanding, aKeyAccepted, aTokensSeen, aResponse, aExecuted, lPc,
              lResult>>
hookVars == <<wHead, wSyncToken, wTokenRead, wItems, wFetched, wDelivered, wPc>>
vars == <<schedVars, dupVars, simVars, recVars, batchVars, notifyVars, remVars, authVars, hookVars>>

\* what every action of the scheduling handlers leaves alone
notSchedVars == <<dupVars, simVars, recVars, batchVars, notifyVars, remVars, authVars, hookVars>>
\* what every action of findDuplicateEvents leaves alone
notDupVars == <<schedVars, simVars, recVars, batchVars, notifyVars, remVars, authVars, hookVars>>
\* what a call of calculateSimilarity or arePotentialDuplicates leaves alone
notSimVars == <<schedVars, dupVars, recVars, batchVars, notifyVars, remVars, authVars, hookVars>>
\* what createEventException and deleteEventInstance leave alone
notRecVars == <<schedVars, dupVars, simVars, batchVars, notifyVars, remVars, authVars, hookVars>>
\* what batchOperations leaves alone
notBatchVars == <<schedVars, dupVars, simVars, recVars, notifyVars, remVars, authVars, hookVars>>
\* what sendNotification leaves alone
notNotifyVars == <<schedVars, dupVars, simVars, recVars, batchVars, remVars, authVars, hookVars>>
\* what processReminders leaves alone
notRemVars == <<schedVars, dupVars, simVars, recVars, batchVars, notifyVars, authVars, hookVars>>
\* what the authentication code leaves alone
notAuthVars == <<schedVars, dupVars, simVars, recVars, batchVars, notifyVars, remVars, hookVars>>
\* what the handler of POST /webhook/calendar leaves alone
notHookVars == <<schedVars, dupVars, simVars, recVars, batchVars, notifyVars, remVars, authVars>>

-----------------------------------------------------------------------------
(* Bounds *)

MaxTime == 2
MaxEvents == 2

Times == 0..MaxTime
Procs == {1, 2}

\* an absent eventId parameter (undefined is falsy in `eventId && ...`)
NoId == 0

Min(a, b) == IF a < b THEN a ELSE b
Max(a, b) == IF a > b THEN a ELSE b
Range(s) == {s[k] : k \in DOMAIN s}

-----------------------------------------------------------------------------
(* Strings *)

LowerChar(c) ==
    CASE c = "A" -> "a"
      [] c = "B" -> "b"
      [] c = "U" -> "u"
      [] c = "V" -> "v"
      [] c = "W" -> "w"
      [] OTHER -> c

\* U+0130, LATIN CAPITAL LETTER I WITH DOT ABOVE, and U+0307, COMBINING DOT ABOVE:
\* the lower-case form of the first is "i" followed by the second
DottedCapitalI == "I+"
CombiningDot == "+"

\* the lower-case form of one character, a string of one or two characters
LowerCased(c) == IF c = DottedCapitalI THEN <<"i", CombiningDot>> ELSE <<LowerChar(c)>>

\* String.prototype.toLowerCase
RECURSIVE toLowerCase(_)
toLowerCase(str) ==
    IF str = <<>> THEN <<>> ELSE LowerCased(Head(str)) \o toLowerCase(Tail(str))

userLower == <<"u", "@">>
userUpper == <<"U", "@">>
otherUser == <<"v", "@">>
thirdUser == <<"w", "@">>

-----------------------------------------------------------------------------
(* Calendar events and request parameters *)

Spans == {sp \in Times \X Times : sp[1] < sp[2]}

\* status and attendees of the events the gateway may hold
EventKinds ==
    { [status |-> "confirmed", hasAttendees |-> TRUE,  attendees |-> <<userUpper, thirdUser>>],
      [status |-> "cancelled", hasAttendees |-> TRUE,  attendees |-> <<userUpper, thirdUser>>] }

Event(id, start, end, kind) ==
    [id |-> id, start |-> start, end |-> end, status |-> kind.status,
     hasAttendees |-> kind.hasAttendees, attendees |-> kind.attendees]

\* all calendars of n events; ids are the positions
CalendarsOfLen(n) ==
    { [k \in 1..n |-> Event(k, f[k][1][1], f[k][1][2], f[k][2])] :
        f \in [1..n -> Spans \X EventKinds] }

Calendars(n) == UNION { CalendarsOfLen(m) : m \in 0..n }

Params(start, end, hasTimes, eventId, attendees, hasAttendees, checkAttendees, checkConflicts, allowConflicts) ==
    [start |-> start, end |-> end, hasTimes |-> hasTimes, eventId |-> eventId,
     attendees |-> attendees, hasAttendees |-> hasAttendees,
     checkAttendees |-> checkAttendees, checkConflicts |-> checkConflicts,
     allowConflicts |-> allowConflicts]

NoParams == Params(0, 0, FALSE, NoId, <<>>, FALSE, TRUE, TRUE, FALSE)

CandidateAttendees == { <<>>, <<otherUser, userLower>>, <<otherUser>> }

\* detect_conflicts: start and end are required, any order of the two instants
DetectParams ==
    { Params(s, e, TRUE, id, a, TRUE, ca, TRUE, FALSE) :
        s \in Times, e \in Times, id \in {NoId, 1}, a \in CandidateAttendees,
        ca \in BOOLEAN }

\* create_event: summary, start and end are required
CreateParams ==
    { Params(sp[1], sp[2], TRUE, NoId, <<>>, FALSE, TRUE, cc, ac) :
        sp \in Spans, cc \in BOOLEAN, ac \in BOOLEAN }

\* update_event of event 1: new times, or a change of the summary alone
UpdateParams ==
    { Params(sp[1], sp[2], TRUE, 1, <<>>, FALSE, TRUE, cc, ac) :
        sp \in Spans, cc \in BOOLEAN, ac \in BOOLEAN }
    \cup
    { Params(0, 0, FALSE, 1, <<>>, FALSE, TRUE, cc, ac) :
        cc \in BOOLEAN, ac \in BOOLEAN }

-----------------------------------------------------------------------------
(* Errors and the error mapping of POST /mcp/execute *)

NullReport ==
    [isNull |-> TRUE, hasConflicts |-> FALSE, timeConflicts |-> <<>>,
     attendeeConflicts |-> <<>>, timeConflictsCount |-> 0,
     attendeeConflictsCount |-> 0, warningOnly |-> FALSE]

Error(code, hasErrors, reason, message, report) ==
    [code |-> code, hasErrors |-> hasErrors, reason |-> reason,
     message |-> message, conflicts |-> report]

\* new Error('End time must be after start time'): a plain Error, no code
ErrTimeOrder == Error("none", FALSE, "none", "End time must be after start time", NullReport)

\* what a failing gateway call can throw: an API error body, a network error
GatewayErrors ==
    { Error("500", TRUE, "backendError", "Backend Error", NullReport),
      Error("ECONNRESET", FALSE, "none", "socket hang up", NullReport) }

ErrGateway404 == Error("404", TRUE, "notFound", "Not Found", NullReport)

ErrorResponse(error) ==
    LET base == [status |-> "error", error_type |-> "server_error", statusCode |-> 500,
                 error |-> error.message, conflicts |-> NullReport, id |-> NoId]
    IN  IF error.code = "404" THEN
            [base EXCEPT !.error_type = "not_found_error", !.statusCode = 404]
        ELSE IF error.code \in {"401", "403"} THEN
            [base EXCEPT !.error_type = "authentication_error", !.statusCode = 401]
        ELSE IF error.code = "400" THEN
            [base EXCEPT !.error_type = "validation_error", !.statusCode = 400]
        ELSE IF error.code \in {"409", "CONFLICT"} THEN
            [base EXCEPT !.error_type = "scheduling_conflict", !.statusCode = 409,
                         !.error = "Scheduling conflict detected",
                         !.conflicts = error.conflicts]
        ELSE IF error.code = "429" THEN
            [base EXCEPT !.error_type = "rate_limit_exceeded", !.statusCode = 429]
        ELSE IF error.hasErrors THEN
            IF error.reason \in {"rateLimitExceeded", "userRateLimitExceeded", "quotaExceeded"}
            THEN [base EXCEPT !.error_type = "rate_limit_exceeded", !.statusCode = 429]
            ELSE [base EXCEPT !.error_type = "api_error"]
        ELSE base

SuccessResponse(report, id) ==
    [status |-> "success", error_type |-> "none", statusCode |-> 200,
     error |-> "none", conflicts |-> report, id |-> id]

NoResponse ==
    [status |-> "none", error_type |-> "none", statusCode |-> 0,
     error |-> "none", conflicts |-> NullReport, id |-> NoId]

\* the catch blocks of createEvent and updateEvent; detectEventConflicts rethrows as is
HandlerCatch(a, error) ==
    IF a = "update_event" /\ error.code = "404" THEN
        Error("none", FALSE, "none", "Event not found with ID", NullReport)
    ELSE IF a \in {"create_event", "update_event"} /\ error.code = "CONFLICT" THEN
        Error("409", FALSE, "none", "Scheduling conflict detected", error.conflicts)
    ELSE error

-----------------------------------------------------------------------------
(* detectEventConflicts *)

isTimeOverlapInclusive(event1Start, event1End, event2Start, event2End) ==
    event1Start <= event2End /\ event1End >= event2Start

isTimeOverlapContained(event1Start, event1End, event2Start, event2End) ==
    event1Start <= event2Start /\ event1End >= event2End

isTimeOverlap(event1Start, event1End, event2Start, event2End) ==
    event1Start < event2End /\ event1End > event2Start

\* the two `continue` guards of the scan loop
SkipNothing(existingEvent, eventId) == FALSE

SkipEvent(existingEvent, eventId) ==
    \/ eventId # NoId /\ existingEvent.id = eventId
    \/ existingEvent.status = "cancelled"

proposedAttendeeEmails(attendees) == [k \in DOMAIN attendees |-> toLowerCase(attendees[k])]

existingAttendeeEmails(existingEvent) ==
    [k \in DOMAIN existingEvent.attendees |-> toLowerCase(existingEvent.attendees[k])]

CommonAttendeesCaseSensitive(attendees, existingEvent) ==
    SelectSeq(attendees, LAMBDA email : email \in Range(existingEvent.attendees))

\* the loop collecting conflictingAttendees
CommonAttendees(attendees, existingEvent) ==
    SelectSeq(proposedAttendeeEmails(attendees),
              LAMBDA email : email \in Range(existingAttendeeEmails(existingEvent)))

TimeConflict(existingEvent) ==
    [id |-> existingEvent.id, start |-> existingEvent.start, end |-> existingEvent.end,
     conflictType |-> "time_overlap"]

AttendeeConflict(existingEvent, conflictingAttendees) ==
    [id |-> existingEvent.id, start |-> existingEvent.start, end |-> existingEvent.end,
     conflictingAttendees |-> conflictingAttendees,
     conflictType |-> "attendee_double_booking"]

\* the guards of the attendee branch of the scan loop
AttendeeCheck(cp, existingEvent) ==
    /\ cp.checkAttendees /\ existingEvent.hasAttendees /\ Len(cp.attendees) > 0
    /\ Len(CommonAttendees(cp.attendees, existingEvent)) > 0
    /\ isTimeOverlap(cp.start, cp.end, existingEvent.start, existingEvent.end)

\* one iteration of the scan loop over response.data.items
ScanOne(cp, existingEvent, acc) ==
    IF SkipEvent(existingEvent, cp.eventId) THEN acc
    ELSE
        LET acc1 == IF isTimeOverlap(cp.start, cp.end, existingEvent.start, existingEvent.end)
                    THEN [acc EXCEPT !.timeConflicts = Append(@, TimeConflict(existingEvent)),
                                     !.hasConflicts = TRUE]
                    ELSE acc
        IN  IF AttendeeCheck(cp, existingEvent)
            THEN [acc1 EXCEPT !.attendeeConflicts =
                                  Append(@, AttendeeConflict(existingEvent,
                                            CommonAttendees(cp.attendees, existingEvent))),
                              !.hasConflicts = TRUE]
            ELSE acc1

\* the iterations lo..hi of the scan loop, in order; the range is halved and the
\* accumulator of the first half is evaluated before the second half starts, which
\* keeps the evaluation of a page of a hundred items shallow
RECURSIVE ScanRange(_, _, _, _, _)
ScanRange(cp, its, lo, hi, acc) ==
    IF lo > hi THEN acc
    ELSE IF lo = hi THEN ScanOne(cp, its[lo], acc)
    ELSE LET mid == (lo + hi) \div 2
             first == ScanRange(cp, its, lo, mid, acc)
         IN  IF first.hasConflicts \in BOOLEAN
             THEN ScanRange(cp, its, mid + 1, hi, first)
             ELSE first

\* the scan loop from item k on
ScanFrom(cp, its, k, acc) == ScanRange(cp, its, k, Len(its), acc)

ReportAlways(acc, warningOnly) ==
    [acc EXCEPT !.isNull = FALSE,
                !.timeConflictsCount = Len(acc.timeConflicts),
                !.attendeeConflictsCount = Len(acc.attendeeConflicts),
                !.warningOnly = warningOnly]

\* the end of detectEventConflicts: null, or the report with its summary
ReportOrNull(acc, warningOnly) ==
    IF ~acc.hasConflicts THEN NullReport
    ELSE [acc EXCEPT !.isNull = FALSE,
                     !.timeConflictsCount = Len(acc.timeConflicts),
                     !.attendeeConflictsCount = Len(acc.attendeeConflicts),
                     !.warningOnly = warningOnly]

\* detectEventConflicts from the response of calendar.events.list on
detectEventConflicts(cp, its) ==
    IF Len(its) = 0 THEN NullReport
    ELSE ReportOrNull(ScanFrom(cp, its, 1,
                               [NullReport EXCEPT !.isNull = FALSE]),
                      cp.allowConflicts)

\* what the dispatcher of detect_conflicts answers for a null report
EmptyReport == [NullReport EXCEPT !.isNull = FALSE]

MustRejectInverted(report, p) == ~report.isNull /\ p.allowConflicts

\* createEvent, updateEvent: `if (conflicts && !allowConflicts) throw`
MustReject(report, p) == ~report.isNull /\ ~p.allowConflicts

\* the parameters each caller passes to detectEventConflicts
ConflictParams(a, p, merged) ==
    IF a = "update_event" THEN
        [p EXCEPT !.start = IF p.hasTimes THEN p.start ELSE merged.start,
                  !.end = IF p.hasTimes THEN p.end ELSE merged.end,
                  !.attendees = IF p.hasAttendees THEN p.attendees ELSE merged.attendees,
                  !.checkAttendees = TRUE]
    ELSE IF a = "create_event" THEN
        [p EXCEPT !.eventId = NoId, !.checkAttendees = TRUE]
    ELSE [p EXCEPT !.allowConflicts = FALSE]

-----------------------------------------------------------------------------
(* The calendar gateway *)

MaxResults == 100

\* orderBy: 'startTime': the events of the least start first, in their order, and so on
RECURSIVE OrderByStartFrom(_, _)
OrderByStartFrom(seq, starts) ==
    IF starts = {} THEN <<>>
    ELSE LET least == CHOOSE x \in starts : \A y \in starts : x <= y
         IN  SelectSeq(seq, LAMBDA e : e.start = least)
                 \o OrderByStartFrom(seq, starts \ {least})

OrderByStart(seq) == OrderByStartFrom(seq, {seq[k].start : k \in DOMAIN seq})

\* calendar.events.list({timeMin, timeMax, orderBy, maxResults}): the events that end
\* after timeMin and start before timeMax, by start, one page of at most maxResults
GatewayList(cal, timeMin, timeMax) ==
    LET inWindow == SelectSeq(cal, LAMBDA e : e.end > timeMin /\ e.start < timeMax)
    IN  SubSeq(OrderByStart(inWindow), 1, Min(Len(inWindow), MaxResults))

\* timeMin and timeMax of the query of detectEventConflicts (one hour of buffer)
QueryWindow(cp) == <<cp.start, cp.end + 1>>

HasEvent(cal, id) == \E k \in DOMAIN cal : cal[k].id = id
EventById(cal, id) == cal[CHOOSE k \in DOMAIN cal : cal[k].id = id]

\* updateEvent: the current event overridden by the provided fields
MergedEvent(current, p) ==
    [current EXCEPT !.start = IF p.hasTimes THEN p.start ELSE @,
                    !.end = IF p.hasTimes THEN p.end ELSE @,
                    !.hasAttendees = IF p.hasAttendees THEN TRUE ELSE @,
                    !.attendees = IF p.hasAttendees THEN p.attendees ELSE @]

\* createEvent: the event resource sent to calendar.events.insert
NewEvent(id, p) ==
    [id |-> id, start |-> p.start, end |-> p.end, status |-> "confirmed",
     hasAttendees |-> p.hasAttendees, attendees |-> p.attendees]

NoEvent == Event(NoId, 0, 0, [status |-> "none", hasAttendees |-> FALSE, attendees |-> <<>>])

-----------------------------------------------------------------------------
(* The handlers of /mcp/execute, one action per step between two awaits *)

Finish(r, response) ==
    /\ pc' = [pc EXCEPT ![r] = "done"]
    /\ outcome' = [outcome EXCEPT ![r] = response]

\* detectEventConflicts up to its await of calendar.events.list
StartCheck(r, a, cp) ==
    IF cp.end <= cp.start
    THEN /\ Finish(r, ErrorResponse(HandlerCatch(a, ErrTimeOrder)))
         /\ UNCHANGED listCalls
    ELSE /\ pc' = [pc EXCEPT ![r] = "list"]
         /\ listCalls' = [listCalls EXCEPT ![r] = @ + 1]
         /\ UNCHANGED outcome

\* the caller goes on to its write: calendar.events.insert or .update is issued
StartWrite(r, a) ==
    /\ pc' = [pc EXCEPT ![r] = IF a = "create_event" THEN "insert" ELSE "update"]
    /\ writeCalls' = [writeCalls EXCEPT ![r] = @ + 1]
    /\ UNCHANGED outcome

\* POST /mcp/execute with action a and parameters p, up to the first await
Request(r, a, p) ==
    /\ pc[r] = "idle"
    /\ action' = [action EXCEPT ![r] = a]
    /\ params' = [params EXCEPT ![r] = p]
    /\ IF a = "update_event" THEN
           /\ pc' = [pc EXCEPT ![r] = "get"]
           /\ UNCHANGED <<outcome, listCalls, writeCalls>>
       ELSE IF a = "create_event" /\ ~p.checkConflicts THEN
           /\ StartWrite(r, a)
           /\ UNCHANGED listCalls
       ELSE
           /\ StartCheck(r, a, ConflictParams(a, p, NoEvent))
           /\ UNCHANGED writeCalls
    /\ UNCHANGED <<calendar, nextId, items, conflicts, eventUpdate, scanned>>
    /\ UNCHANGED notSchedVars

\* updateEvent: calendar.events.get answers
GetResponse(r) ==
    /\ pc[r] = "get"
    /\ IF ~HasEvent(calendar, params[r].eventId) THEN
           /\ Finish(r, ErrorResponse(HandlerCatch(action[r], ErrGateway404)))
           /\ UNCHANGED <<eventUpdate, listCalls, writeCalls>>
       ELSE
           LET merged == MergedEvent(EventById(calendar, params[r].eventId), params[r])
           IN  /\ eventUpdate' = [eventUpdate EXCEPT ![r] = merged]
               /\ IF params[r].checkConflicts /\ (params[r].hasTimes \/ params[r].hasAttendees)
                  THEN /\ StartCheck(r, action[r], ConflictParams(action[r], params[r], merged))
                       /\ UNCHANGED writeCalls
                  ELSE /\ StartWrite(r, action[r])
                       /\ UNCHANGED listCalls
    /\ UNCHANGED <<calendar, nextId, action, params, items, conflicts, scanned>>
    /\ UNCHANGED notSchedVars

\* calendar.events.list answers with the items its: the scan, and what the caller
\* does with the report
ListResponse(r, its) ==
    /\ pc[r] = "list"
    /\ LET cp == ConflictParams(action[r], params[r], eventUpdate[r])
           report == detectEventConflicts(cp, its)
       IN  /\ items' = [items EXCEPT ![r] = its]
           /\ scanned' = [scanned EXCEPT ![r] = TRUE]
           /\ conflicts' = [conflicts EXCEPT ![r] = report]
           /\ IF action[r] = "detect_conflicts" THEN
                  /\ Finish(r, SuccessResponse(IF report.isNull THEN EmptyReport ELSE report,
                                                NoId))
                  /\ UNCHANGED writeCalls
              ELSE IF MustReject(report, params[r]) THEN
                  /\ Finish(r, ErrorResponse(HandlerCatch(action[r],
                         Error("CONFLICT", FALSE, "none", "Scheduling conflict detected", report))))
                  /\ UNCHANGED writeCalls
              ELSE
                  StartWrite(r, action[r])
    /\ UNCHANGED <<calendar, nextId, action, params, eventUpdate, listCalls>>
    /\ UNCHANGED notSchedVars

ListFailsIgnored(r, error) ==
    /\ pc[r] = "list"
    /\ StartWrite(r, action[r])
    /\ UNCHANGED <<calendar, nextId, action, params, items, conflicts, eventUpdate,
                   listCalls, scanned>>
    /\ UNCHANGED notSchedVars

\* calendar.events.list fails: the error goes up through the catch blocks
ListFails(r, error) ==
    /\ pc[r] = "list"
    /\ Finish(r, ErrorResponse(HandlerCatch(action[r], error)))
    /\ UNCHANGED <<calendar, nextId, action, params, items, conflicts, eventUpdate,
                   listCalls, writeCalls, scanned>>
    /\ UNCHANGED notSchedVars

\* calendar.events.insert answers: the gateway stores the event under a new id
InsertResponse(r) ==
    /\ pc[r] = "insert"
    /\ calendar' = Append(calendar, NewEvent(nextId, params[r]))
    /\ nextId' = nextId + 1
    /\ Finish(r, SuccessResponse(NullReport, nextId))
    /\ UNCHANGED <<action, params, items, conflicts, eventUpdate, listCalls, writeCalls,
                   scanned>>
    /\ UNCHANGED notSchedVars

\* calendar.events.update answers: the gateway replaces the event by the merged one
UpdateResponse(r) ==
    /\ pc[r] = "update"
    /\ calendar' = [k \in DOMAIN calendar |->
                       IF calendar[k].id = eventUpdate[r].id THEN eventUpdate[r]
                       ELSE calendar[k]]
    /\ Finish(r, SuccessResponse(NullReport, eventUpdate[r].id))
    /\ UNCHANGED <<nextId, action, params, items, conflicts, eventUpdate, listCalls,
                   writeCalls, scanned>>
    /\ UNCHANGED notSchedVars

-----------------------------------------------------------------------------
(* Specifications of the scheduling handlers *)

DupOff ==
    /\ dEvents = <<>>
    /\ dThreshold = 0
    /\ dI = 0
    /\ dJ = 0
    /\ duplicates = <<>>
    /\ processedEvents = {}
    /\ duplicateGroups = <<>>
    /\ dPc = "off"
    /\ dResult = [returned |-> FALSE, hasCount |-> FALSE, count |-> 0,
                  hasMessage |-> FALSE]

SimOff ==
    /\ simStr1 = <<>>
    /\ simStr2 = <<>>
    /\ simStartDiff = 0
    /\ simThreshold = 0
    /\ simPc = "off"
    /\ simScore = <<0, 1>>
    /\ simScoreSwapped = <<0, 1>>
    /\ simDistance = FALSE
    /\ simPair = FALSE
    /\ simPairSwapped = FALSE

RecOff ==
    /\ recAction = "none"
    /\ recMaster = [exists |-> FALSE, recurrence |-> FALSE]
    /\ recItems = <<>>
    /\ recTarget = [clock |-> 0, offset |-> 0]
    /\ recPc = "off"
    /\ recInstance = 0
    /\ recCalls = <<>>
    /\ recOutcome = [status |-> "none", code |-> "none", message |-> "none", eventId |-> 0]

BatchOff ==
    /\ bIsArray = FALSE
    /\ bOps = <<>>
    /\ bCalendar = <<>>
    /\ bCalendar0 = <<>>
    /\ bNextId = 0
    /\ bI = 0
    /\ bResults = <<>>
    /\ bPc = "off"
    /\ bReturn = [status |-> "none", message |-> "none", operations_count |-> 0,
                  success_count |-> 0, error_count |-> 0]
    /\ bGatewayLog = <<>>

NotifyOff ==
    /\ nEnv = "none"
    /\ nAddress = "none"
    /\ nMaxRetries = 0
    /\ nAttempts = 0
    /\ nLastError = [status |-> 0, code |-> "null"]
    /\ nLog = <<>>
    /\ nPc = "off"
    /\ nResult = [status |-> "none", error |-> [status |-> 0, code |-> "null"]]

RemOff ==
    /\ remindersSent = {}
    /\ delivered = <<>>
    /\ rPc = <<>>
    /\ rWebhook = <<>>
    /\ rItems = <<>>
    /\ rSentRead = <<>>
    /\ rTableAtRead = <<>>
    /\ rUpcoming = <<>>
    /\ rSaved = <<>>
    /\ rOutcome = <<>>

AuthOff ==
    /\ tokens = "null"
    /\ dbTokens = "null"
    /\ apiKeys = <<>>
    /\ clock = [day |-> 0, hour |-> 0]
    /\ revokedKeys = {}
    /\ aPc = "off"
    /\ aKey = 0
    /\ aWellFormed = FALSE
    /\ aKeyStanding = "none"
    /\ aKeyAccepted = FALSE
    /\ aTokensSeen = "none"
    /\ aResponse = [statusCode |-> 0, error_type |-> "none", error |-> "none", auth_url |-> FALSE]
    /\ aExecuted = FALSE
    /\ lPc = "idle"
    /\ lResult = "none"

HookOff ==
    /\ wHead = 0
    /\ wSyncToken = 0
    /\ wTokenRead = 0
    /\ wItems = {}
    /\ wFetched = {}
    /\ wDelivered = {}
    /\ wPc = "off"

SchedIdle ==
    /\ nextId = Len(calendar) + 1
    /\ pc = [r \in Procs |-> "idle"]
    /\ action = [r \in Procs |-> "none"]
    /\ params = [r \in Procs |-> NoParams]
    /\ items = [r \in Procs |-> <<>>]
    /\ conflicts = [r \in Procs |-> NullReport]
    /\ eventUpdate = [r \in Procs |-> NoEvent]
    /\ outcome = [r \in Procs |-> NoResponse]
    /\ listCalls = [r \in Procs |-> 0]
    /\ writeCalls = [r \in Procs |-> 0]
    /\ scanned = [r \in Procs |-> FALSE]

\* SpecDetect: one detect_conflicts request against a calendar client that answers
\* the list call with any list of events (as the stub of tests/auth.test.js does)
InitDetect ==
    /\ calendar \in Calendars(MaxEvents)
    /\ SchedIdle
    /\ DupOff
    /\ SimOff
    /\ RecOff
    /\ BatchOff
    /\ NotifyOff
    /\ RemOff
    /\ AuthOff
    /\ HookOff

NextDetect ==
    \/ \E p \in DetectParams : Request(1, "detect_conflicts", p)
    \/ ListResponse(1, calendar)
    \/ \E error \in GatewayErrors : ListFails(1, error)

SpecDetect == InitDetect /\ [][NextDetect]_vars

\* Spec: two concurrent create_event / update_event requests against a gateway
\* that holds the calendar and answers the list call from it
Init ==
    /\ calendar \in Calendars(1)
    /\ SchedIdle
    /\ DupOff
    /\ SimOff
    /\ RecOff
    /\ BatchOff
    /\ NotifyOff
    /\ RemOff
    /\ AuthOff
    /\ HookOff

Next ==
    \/ \E r \in Procs, p \in CreateParams : Request(r, "create_event", p)
    \/ \E r \in Procs, p \in UpdateParams : Request(r, "update_event", p)
    \/ \E r \in Procs : GetResponse(r)
    \/ \E r \in Procs :
          LET cp == ConflictParams(action[r], params[r], eventUpdate[r])
          IN  ListResponse(r, GatewayList(calendar, QueryWindow(cp)[1], QueryWindow(cp)[2]))
    \/ \E r \in Procs, error \in GatewayErrors : ListFails(r, error)
    \/ \E r \in Procs : InsertResponse(r)
    \/ \E r \in Procs : UpdateResponse(r)

Spec == Init /\ [][Next]_vars

\* the numbers of events around the page size of the list call
PageCounts == {MaxResults - 1, MaxResults, MaxResults + 1}

\* a calendar of n confirmed events: all but the last span `most`, the last spans `last`
BusyCalendar(n, most, last) ==
    [k \in 1..n |->
        Event(k, IF k < n THEN most[1] ELSE last[1], IF k < n THEN most[2] ELSE last[2],
              [status |-> "confirmed", hasAttendees |-> FALSE, attendees |-> <<>>])]

\* SpecPage: one detect_conflicts request against a gateway that holds about a page
\* of events and answers the list call from them
InitPage ==
    /\ calendar \in {BusyCalendar(n, most, last) : n \in PageCounts, most \in Spans, last \in Spans}
    /\ SchedIdle
    /\ DupOff
    /\ SimOff
    /\ RecOff
    /\ BatchOff
    /\ NotifyOff
    /\ RemOff
    /\ AuthOff
    /\ HookOff

NextPage ==
    \/ \E p \in DetectParams : Request(1, "detect_conflicts", p)
    \/ LET cp == ConflictParams(action[1], params[1], eventUpdate[1])
       IN  ListResponse(1, GatewayList(calendar, QueryWindow(cp)[1], QueryWindow(cp)[2]))

SpecPage == InitPage /\ [][NextPage]_vars

-----------------------------------------------------------------------------
(* findDuplicateEvents *)

MaxDupEvents == 4

Min3(a, b, c) == Min(a, Min(b, c))

levenshteinDistanceCostlySubstitution(str1, str2) ==
    LET len1 == Len(str1)
        len2 == Len(str2)
        dp[i \in 0..len1, j \in 0..len2] ==
            IF j = 0 THEN i
            ELSE IF i = 0 THEN j
            ELSE Min3(dp[i - 1, j] + 1,
                      dp[i, j - 1] + 1,
                      dp[i - 1, j - 1] + (IF str1[i] = str2[j] THEN 0 ELSE 2))
    IN  dp[len1, len2]

\* the dynamic-programming table of calculateSimilarity, read at dp[len1][len2]
levenshteinDistance(str1, str2) ==
    LET len1 == Len(str1)
        len2 == Len(str2)
        dp[i \in 0..len1, j \in 0..len2] ==
            IF j = 0 THEN i
            ELSE IF i = 0 THEN j
            ELSE Min3(dp[i - 1, j] + 1,
                      dp[i, j - 1] + 1,
                      dp[i - 1, j - 1] + (IF str1[i] = str2[j] THEN 0 ELSE 1))
    IN  dp[len1, len2]

calculateSimilarityByFirstLength(str1, str2) ==
    IF str1 = <<>> \/ str2 = <<>> THEN <<0, 1>>
    ELSE LET s1 == toLowerCase(str1)
             s2 == toLowerCase(str2)
         IN  IF s1 = s2 THEN <<1, 1>>
             ELSE <<Max(0, Len(s1) - levenshteinDistance(s1, s2)), Len(s1)>>

calculateSimilarityIdentityFirst(str1, str2) ==
    LET s1 == toLowerCase(str1)
        s2 == toLowerCase(str2)
    IN  IF s1 = s2 THEN <<1, 1>>
        ELSE IF str1 = <<>> \/ str2 = <<>> THEN <<0, 1>>
        ELSE LET maxLen == Max(Len(s1), Len(s2))
             IN  <<maxLen - levenshteinDistance(s1, s2), maxLen>>

\* calculateSimilarity: the score as a fraction <<numerator, denominator>>
calculateSimilarity(str1, str2) ==
    IF str1 = <<>> \/ str2 = <<>> THEN <<0, 1>>
    ELSE LET s1 == toLowerCase(str1)
             s2 == toLowerCase(str2)
         IN  IF s1 = s2 THEN <<1, 1>>
             ELSE LET maxLen == Max(Len(s1), Len(s2))
                  IN  <<maxLen - levenshteinDistance(s1, s2), maxLen>>

Abs(x) == IF x < 0 THEN 0 - x ELSE x

arePotentialDuplicatesStrict(event1, event2, threshold) ==
    LET summarySimilarity == calculateSimilarity(event1.summary, event2.summary)
        timeProximity == IF Abs(event1.start - event2.start) < 48 THEN 1 ELSE 0
    IN  7 * summarySimilarity[1] + 3 * timeProximity * summarySimilarity[2]
            > threshold * summarySimilarity[2]

\* arePotentialDuplicates: summarySimilarity * 0.7 + timeProximity * 0.3 >= threshold,
\* with the threshold in tenths and both sides multiplied by 10 * denominator.
\* Exact arithmetic: for thresholds in tenths it agrees with the double arithmetic of
\* the source for every summary length below 7.
arePotentialDuplicates(event1, event2, threshold) ==
    LET summarySimilarity == calculateSimilarity(event1.summary, event2.summary)
        timeDiffHours == Abs(event1.start - event2.start)
        timeProximity == IF timeDiffHours < 48 THEN 1 ELSE 0
    IN  7 * summarySimilarity[1] + 3 * timeProximity * summarySimilarity[2]
            >= threshold * summarySimilarity[2]

IsProcessedNever(processed, id) == FALSE

\* processedEvents.has(id)
IsProcessed(processed, id) == id \in processed

JoinsGroupOfAnyMember(dups, event2, threshold) ==
    \E k \in DOMAIN dups : arePotentialDuplicates(dups[k], event2, threshold)

\* the test of the inner loop: event2 against event1, the first of duplicates
JoinsGroup(dups, event2, threshold) == arePotentialDuplicates(dups[1], event2, threshold)

\* the summaries of the events; <<>> is a missing summary (event.summary || '')
DupSummaries == { <<"a", "b">>, <<"A", "c">>, <<"a", "b", "c">>, <<>> }

\* the start instants of the events, in hours
DupStarts == {0, 48}

\* similarityThreshold in tenths; when absent the default 0.7 applies
similarityThresholdOf(given, value) == IF given THEN value ELSE 7

\* the listings of n events, ordered by start time (orderBy: 'startTime'); ids are
\* the positions
DupListingsOfLen(n) ==
    { [k \in 1..n |-> [id |-> k, summary |-> f[k][1], start |-> f[k][2]]] :
        f \in { g \in [1..n -> DupSummaries \X DupStarts] :
                  \A k \in 1..(n - 1) : g[k][2] <= g[k + 1][2] } }

DupListings == UNION { DupListingsOfLen(n) : n \in 0..MaxDupEvents }

\* nothing returned yet
NoDupResult == [returned |-> FALSE, hasCount |-> FALSE, count |-> 0, hasMessage |-> FALSE]

\* the object returned for an empty listing: duplicateGroups, message, calendarId
EmptyDupResult == [returned |-> TRUE, hasCount |-> FALSE, count |-> 0, hasMessage |-> TRUE]

\* the object returned after the loops: duplicateGroups, count, calendarId, timeRange
DupResult(groups) ==
    [returned |-> TRUE, hasCount |-> TRUE, count |-> Len(groups), hasMessage |-> FALSE]

GroupIsEmittedAlways(dups) == Len(dups) > 0

\* if (duplicates.length > 1)
GroupIsEmitted(dups) == Len(dups) > 1

\* calendar.events.list answers findDuplicateEvents
DupListResponse ==
    /\ dPc = "call"
    /\ IF Len(dEvents) = 0
       THEN dPc' = "done" /\ dI' = dI /\ dResult' = EmptyDupResult
       ELSE dPc' = "outer" /\ dI' = 1 /\ dResult' = dResult
    /\ UNCHANGED <<dEvents, dThreshold, dJ, duplicates, processedEvents, duplicateGroups>>
    /\ UNCHANGED notDupVars

\* the head of the outer loop
DupOuter ==
    /\ dPc = "outer"
    /\ IF dI > Len(dEvents) THEN
           /\ dPc' = "done"
           /\ dResult' = DupResult(duplicateGroups)
           /\ UNCHANGED <<dI, dJ, duplicates>>
       ELSE IF IsProcessed(processedEvents, dEvents[dI].id) THEN
           /\ dI' = dI + 1
           /\ UNCHANGED <<dPc, dJ, duplicates, dResult>>
       ELSE
           /\ duplicates' = <<dEvents[dI]>>
           /\ dJ' = dI + 1
           /\ dPc' = "inner"
           /\ dI' = dI
           /\ dResult' = dResult
    /\ UNCHANGED <<dEvents, dThreshold, processedEvents, duplicateGroups>>
    /\ UNCHANGED notDupVars

\* one iteration of the inner loop
DupInner ==
    /\ dPc = "inner"
    /\ IF dJ > Len(dEvents) THEN
           /\ dPc' = "emit"
           /\ UNCHANGED <<dJ, duplicates, processedEvents>>
       ELSE IF IsProcessed(processedEvents, dEvents[dJ].id) THEN
           /\ dJ' = dJ + 1
           /\ UNCHANGED <<dPc, duplicates, processedEvents>>
       ELSE IF JoinsGroup(duplicates, dEvents[dJ], dThreshold) THEN
           /\ duplicates' = Append(duplicates, dEvents[dJ])
           /\ processedEvents' = processedEvents \cup {dEvents[dJ].id}
           /\ dJ' = dJ + 1
           /\ dPc' = dPc
       ELSE
           /\ dJ' = dJ + 1
           /\ UNCHANGED <<dPc, duplicates, processedEvents>>
    /\ UNCHANGED <<dEvents, dThreshold, dI, duplicateGroups, dResult>>
    /\ UNCHANGED notDupVars

\* the end of the outer loop's body: the group is added if it has a second member
DupEmit ==
    /\ dPc = "emit"
    /\ IF GroupIsEmitted(duplicates)
       THEN /\ duplicateGroups' = Append(duplicateGroups, duplicates)
            /\ processedEvents' = processedEvents \cup {duplicates[k].id : k \in DOMAIN duplicates}
       ELSE UNCHANGED <<duplicateGroups, processedEvents>>
    /\ dI' = dI + 1
    /\ dPc' = "outer"
    /\ UNCHANGED <<dEvents, dThreshold, dJ, duplicates, dResult>>
    /\ UNCHANGED notDupVars

SchedOff ==
    /\ calendar = <<>>
    /\ SchedIdle

\* SpecDup: one call of findDuplicateEvents on a listing and a threshold
InitDup ==
    /\ dEvents \in DupListings
    /\ \E given \in BOOLEAN, value \in {5, 9} :
          dThreshold = similarityThresholdOf(given, value)
    /\ dI = 0
    /\ dJ = 0
    /\ duplicates = <<>>
    /\ processedEvents = {}
    /\ duplicateGroups = <<>>
    /\ dPc = "call"
    /\ dResult = NoDupResult
    /\ SchedOff
    /\ SimOff
    /\ RecOff
    /\ BatchOff
    /\ NotifyOff
    /\ RemOff
    /\ AuthOff
    /\ HookOff

NextDup == DupListResponse \/ DupOuter \/ DupInner \/ DupEmit

SpecDup == InitDup /\ [][NextDup]_vars

-----------------------------------------------------------------------------
(* calculateSimilarity and arePotentialDuplicates on their own *)

MaxStrLen == 2

\* the characters of the summaries
SimChars == {"a", "A", "b", DottedCapitalI}

SimStrings == UNION { [1..n -> SimChars] : n \in 0..MaxStrLen }

\* the calls of calculateSimilarity that reach the distance table: neither the
\* guard (!str1 || !str2) nor the identity test returned
DistanceIsComputed(str1, str2) ==
    /\ str1 # <<>> /\ str2 # <<>>
    /\ toLowerCase(str1) # toLowerCase(str2)

\* an event with the given summary and start, as arePotentialDuplicates reads it
SimEvent(summary, start) == [id |-> 0, summary |-> summary, start |-> start]

\* one call of calculateSimilarity and of arePotentialDuplicates, in both orders
SimCall ==
    /\ simPc = "call"
    /\ simPc' = "done"
    /\ simScore' = calculateSimilarity(simStr1, simStr2)
    /\ simScoreSwapped' = calculateSimilarity(simStr2, simStr1)
    /\ simDistance' = DistanceIsComputed(simStr1, simStr2)
    /\ simPair' = arePotentialDuplicates(SimEvent(simStr1, 0),
                                         SimEvent(simStr2, simStartDiff), simThreshold)
    /\ simPairSwapped' = arePotentialDuplicates(SimEvent(simStr2, simStartDiff),
                                                SimEvent(simStr1, 0), simThreshold)
    /\ UNCHANGED <<simStr1, simStr2, simStartDiff, simThreshold>>
    /\ UNCHANGED notSimVars

\* SpecSim: calculateSimilarity on every pair of strings, arePotentialDuplicates on
\* every pair of events with these summaries
InitSim ==
    /\ simStr1 \in SimStrings
    /\ simStr2 \in SimStrings
    /\ simStartDiff \in {0, 48}
    /\ simThreshold \in {7}
    /\ simPc = "call"
    /\ simScore = <<0, 1>>
    /\ simScoreSwapped = <<0, 1>>
    /\ simDistance = FALSE
    /\ simPair = FALSE
    /\ simPairSwapped = FALSE
    /\ SchedOff
    /\ DupOff
    /\ RecOff
    /\ BatchOff
    /\ NotifyOff
    /\ RemOff
    /\ AuthOff
    /\ HookOff

NextSim == SimCall

SpecSim == InitSim /\ [][NextSim]_vars

-----------------------------------------------------------------------------
(* createEventException and deleteEventInstance *)

MaxInstances == 2

\* the id of the event the parameter recurringEventId names
RecurringEventId == 1

\* the id of the k-th enumerated instance; the gateway gives every instance an id
\* of its own
InstanceId(k) == RecurringEventId + k

\* a timestamp as written: the wall-clock hour since the epoch and the UTC offset
\* of the zone it is written in, both in hours
RecStamps == [clock : {34, 47, 58}, offset : {0, 0 - 2}]

\* new Date(x): the instant, in hours since the epoch in UTC
Instant(stamp) == stamp.clock - stamp.offset

\* toISOString().substring(0, 10): the calendar date of the instant in UTC, as a
\* day number
IsoDate(instant) == instant \div 24

NoStamp == [clock |-> 0, offset |-> 0]

\* an enumerated instance; originalStartTime may be missing
RecInstance(k, hasOriginalStartTime, stamp) ==
    [id |-> InstanceId(k), hasOriginalStartTime |-> hasOriginalStartTime,
     originalStartTime |-> stamp]

RecListingsOfLen(n) ==
    { [k \in 1..n |-> RecInstance(k, f[k][1], f[k][2])] :
        f \in [1..n -> ({TRUE} \X RecStamps) \cup {<<FALSE, NoStamp>>}] }

RecListings == UNION { RecListingsOfLen(n) : n \in 0..MaxInstances }

NotRecurringMessage == "The specified event is not a recurring event"
NotFoundMessage == "Could not find the specified instance in this recurring event series"

InstanceMatchesExactInstant(instance, originalStartTime) ==
    /\ instance.hasOriginalStartTime
    /\ Instant(instance.originalStartTime) = Instant(originalStartTime)

\* the predicate of instances.data.items.find
InstanceMatches(instance, originalStartTime) ==
    /\ instance.hasOriginalStartTime
    /\ IsoDate(Instant(instance.originalStartTime)) = IsoDate(Instant(originalStartTime))

\* Array.prototype.find from index k on: the index of the first match, 0 for undefined
RECURSIVE FindFrom(_, _, _)
FindFrom(its, k, originalStartTime) ==
    IF k > Len(its) THEN 0
    ELSE IF InstanceMatches(its[k], originalStartTime) THEN k
    ELSE FindFrom(its, k + 1, originalStartTime)

WriteTargetMaster(instance, recurringEventId) == recurringEventId

\* eventId of the update / delete request: instanceToModify.id, instanceToDelete.id
WriteTarget(instance, recurringEventId) == instance.id

WriteOperation(a) == IF a = "create_event_exception" THEN "update" ELSE "delete"

RecThrow(code, message) ==
    [status |-> "error", code |-> code, message |-> message, eventId |-> 0]

RecReturn(id) ==
    [status |-> "success", code |-> "none", message |-> "none", eventId |-> id]

NoRecOutcome == [status |-> "none", code |-> "none", message |-> "none", eventId |-> 0]

\* the function is entered: createEventException first gets the master event,
\* deleteEventInstance goes straight to the enumeration of the instances
RecCall ==
    /\ recPc = "call"
    /\ IF recAction = "create_event_exception"
       THEN /\ recPc' = "get"
            /\ recCalls' = Append(recCalls, <<"get", RecurringEventId>>)
       ELSE /\ recPc' = "instances"
            /\ recCalls' = Append(recCalls, <<"instances", RecurringEventId>>)
    /\ UNCHANGED <<recAction, recMaster, recItems, recTarget, recInstance, recOutcome>>
    /\ UNCHANGED notRecVars

\* calendar.events.get answers createEventException
RecGetResponse ==
    /\ recPc = "get"
    /\ IF ~recMaster.exists THEN
           /\ recPc' = "done"
           /\ recOutcome' = RecThrow(ErrGateway404.code, ErrGateway404.message)
           /\ UNCHANGED recCalls
       ELSE IF ~recMaster.recurrence THEN
           /\ recPc' = "done"
           /\ recOutcome' = RecThrow("none", NotRecurringMessage)
           /\ UNCHANGED recCalls
       ELSE
           /\ recPc' = "instances"
           /\ recCalls' = Append(recCalls, <<"instances", RecurringEventId>>)
           /\ UNCHANGED recOutcome
    /\ UNCHANGED <<recAction, recMaster, recItems, recTarget, recInstance>>
    /\ UNCHANGED notRecVars

\* calendar.events.instances answers: the instance is looked up and the update or
\* delete request is issued for it
RecInstancesResponse ==
    /\ recPc = "instances"
    /\ IF ~recMaster.exists THEN
           /\ recPc' = "done"
           /\ recOutcome' = RecThrow(ErrGateway404.code, ErrGateway404.message)
           /\ UNCHANGED <<recCalls, recInstance>>
       ELSE LET found == FindFrom(recItems, 1, recTarget)
            IN  IF found = 0 THEN
                    /\ recPc' = "done"
                    /\ recOutcome' = RecThrow("none", NotFoundMessage)
                    /\ UNCHANGED <<recCalls, recInstance>>
                ELSE
                    /\ recPc' = "write"
                    /\ recInstance' = found
                    /\ recCalls' = Append(recCalls,
                           <<WriteOperation(recAction),
                             WriteTarget(recItems[found], RecurringEventId)>>)
                    /\ UNCHANGED recOutcome
    /\ UNCHANGED <<recAction, recMaster, recItems, recTarget>>
    /\ UNCHANGED notRecVars

\* calendar.events.update / calendar.events.delete answers
RecWriteResponse ==
    /\ recPc = "write"
    /\ recPc' = "done"
    /\ recOutcome' = RecReturn(recCalls[Len(recCalls)][2])
    /\ UNCHANGED <<recAction, recMaster, recItems, recTarget, recInstance, recCalls>>
    /\ UNCHANGED notRecVars

\* a gateway call fails; both functions rethrow the error as it is
RecGatewayFails(error) ==
    /\ recPc \in {"get", "instances", "write"}
    /\ recPc' = "done"
    /\ recOutcome' = RecThrow(error.code, error.message)
    /\ UNCHANGED <<recAction, recMaster, recItems, recTarget, recInstance, recCalls>>
    /\ UNCHANGED notRecVars

\* SpecRec: one call of createEventException or deleteEventInstance against a
\* gateway that holds the master event or not and enumerates any instances
InitRec ==
    /\ recAction \in {"create_event_exception", "delete_event_instance"}
    /\ recMaster \in [exists : BOOLEAN, recurrence : BOOLEAN]
    /\ recMaster.recurrence => recMaster.exists
    /\ recItems \in RecListings
    /\ recTarget \in RecStamps
    /\ recPc = "call"
    /\ recInstance = 0
    /\ recCalls = <<>>
    /\ recOutcome = NoRecOutcome
    /\ SchedOff
    /\ DupOff
    /\ SimOff
    /\ BatchOff
    /\ NotifyOff
    /\ RemOff
    /\ AuthOff
    /\ HookOff

NextRec ==
    \/ RecCall
    \/ RecGetResponse
    \/ RecInstancesResponse
    \/ RecWriteResponse
    \/ \E error \in GatewayErrors : RecGatewayFails(error)

SpecRec == InitRec /\ [][NextRec]_vars

-----------------------------------------------------------------------------
(* batchOperations *)

MaxOps == 3

\* the parameters of a sub-action: complete says that validateParams finds every
\* required parameter
BatchParams(complete, eventId, start, end) ==
    [complete |-> complete, eventId |-> eventId, start |-> start, end |-> end]

Operation(hasAction, a, hasParameters, p) ==
    [hasAction |-> hasAction, action |-> a, hasParameters |-> hasParameters,
     parameters |-> p]

\* the operations a batch is made of: a create_event of the span [0, 1), one with a
\* required parameter missing, a delete_event and a get_event of event 1, an action
\* the switch does not know, an operation without action, one without parameters
BatchOperationPool ==
    { Operation(TRUE, "create_event", TRUE, BatchParams(TRUE, NoId, 0, 1)),
      Operation(TRUE, "create_event", TRUE, BatchParams(FALSE, NoId, 0, 1)),
      Operation(TRUE, "delete_event", TRUE, BatchParams(TRUE, 1, 0, 0)),
      Operation(TRUE, "get_event", TRUE, BatchParams(TRUE, 1, 0, 0)),
      Operation(TRUE, "list_events", TRUE, BatchParams(TRUE, NoId, 0, 0)),
      Operation(FALSE, "none", TRUE, BatchParams(TRUE, NoId, 0, 0)),
      Operation(TRUE, "get_event", FALSE, BatchParams(FALSE, NoId, 0, 0)) }

Batches == UNION { [1..n -> BatchOperationPool] : n \in 0..MaxOps }

\* the actions the switch of the loop has a case for
BatchActions ==
    {"create_event", "update_event", "delete_event", "get_event",
     "create_event_exception", "delete_event_instance", "manage_webhooks"}

OperationsRejectedFirstOnly(isArray, ops) ==
    \/ ~isArray
    \/ Len(ops) = 0
    \/ ~ops[1].hasAction \/ ~ops[1].hasParameters

\* the checks before the loop: operations is a non-empty array and every operation
\* has an action and parameters
OperationsRejected(isArray, ops) ==
    \/ ~isArray
    \/ Len(ops) = 0
    \/ \E k \in DOMAIN ops : ~ops[k].hasAction \/ ~ops[k].hasParameters

\* the message of the error these checks throw
RejectionMessage(isArray, ops) ==
    IF ~isArray \/ Len(ops) = 0 THEN "No operations provided for batch processing"
    ELSE LET k == CHOOSE m \in DOMAIN ops :
                      /\ ~ops[m].hasAction \/ ~ops[m].hasParameters
                      /\ \A n \in 1..(m - 1) : ops[n].hasAction /\ ops[n].hasParameters
         IN  IF ~ops[k].hasAction THEN "Each operation must have an action property"
             ELSE "Each operation must have parameters"

\* a record of results
BatchResult(a, success, error, error_type, id) ==
    [action |-> a, success |-> success, error |-> error, error_type |-> error_type,
     id |-> id]

\* the catch block of the loop: the record pushed for a thrown error
BatchCatch(a, error) ==
    LET error_type ==
            IF error.code = "404" THEN "not_found_error"
            ELSE IF error.code \in {"401", "403"} THEN "authentication_error"
            ELSE IF error.code = "400" THEN "validation_error"
            ELSE IF error.code = "429" THEN "rate_limit_exceeded"
            ELSE IF error.hasErrors THEN
                IF error.reason \in {"rateLimitExceeded", "userRateLimitExceeded",
                                     "quotaExceeded"}
                THEN "rate_limit_exceeded" ELSE "api_error"
            ELSE "server_error"
    IN  BatchResult(a, FALSE, error.message, error_type, NoId)

\* the sub-action gets past the checks of its case and calls the gateway
CallsGateway(op) == op.action \in BatchActions /\ op.parameters.complete

\* the parameters createEvent takes from a create_event sub-action
BatchCreateParams(p) == Params(p.start, p.end, TRUE, NoId, <<>>, FALSE, TRUE, TRUE, FALSE)

\* the error the called function throws when the gateway answers, or "none"
SubActionError(op, cal) ==
    IF op.action = "create_event" THEN
        LET cp == ConflictParams("create_event", BatchCreateParams(op.parameters), NoEvent)
            report == detectEventConflicts(cp, GatewayList(cal, QueryWindow(cp)[1],
                                                           QueryWindow(cp)[2]))
        IN  IF MustReject(report, cp)
            THEN HandlerCatch("create_event",
                              Error("CONFLICT", FALSE, "none",
                                    "Scheduling conflict detected", report))
            ELSE Error("ok", FALSE, "none", "none", NullReport)
    ELSE IF ~HasEvent(cal, op.parameters.eventId) THEN
        Error("none", FALSE, "none", "Event not found with ID", NullReport)
    ELSE Error("ok", FALSE, "none", "none", NullReport)

\* the record one sub-action pushes when the gateway answers its calls
SubActionResult(op, cal, newId) ==
    IF op.action \notin BatchActions THEN
        BatchResult(op.action, FALSE, "Unsupported action in batch operation",
                    "validation_error", NoId)
    ELSE IF ~op.parameters.complete THEN
        BatchResult(op.action, FALSE, "Missing required parameters", "validation_error",
                    NoId)
    ELSE IF SubActionError(op, cal).code # "ok" THEN
        BatchCatch(op.action, SubActionError(op, cal))
    ELSE BatchResult(op.action, TRUE, "none", "none",
                     IF op.action = "create_event" THEN newId ELSE op.parameters.eventId)

\* the events the gateway holds after the sub-action
SubActionCalendar(op, cal, newId) ==
    IF ~SubActionResult(op, cal, newId).success THEN cal
    ELSE IF op.action = "create_event" THEN
        Append(cal, NewEvent(newId, BatchCreateParams(op.parameters)))
    ELSE IF op.action = "delete_event" THEN
        SelectSeq(cal, LAMBDA e : e.id # op.parameters.eventId)
    ELSE cal

PushResultIfSuccess(results, record) ==
    IF record.success THEN Append(results, record) ELSE results

\* results.push(record)
PushResult(results, record) == Append(results, record)

NextIndexAbortOnFailure(i, n, record) == IF record.success THEN i + 1 ELSE n + 1

\* the index of the sub-action handled after sub-action i of n has pushed record
NextIndex(i, n, record) == i + 1

NoBatchReturn ==
    [status |-> "none", message |-> "none", operations_count |-> 0,
     success_count |-> 0, error_count |-> 0]

BatchThrow(message) == [NoBatchReturn EXCEPT !.status = "error", !.message = message]

\* the object batchOperations returns
BatchReturnValue(ops, results) ==
    [status |-> "success", message |-> "none", operations_count |-> Len(ops),
     success_count |-> Len(SelectSeq(results, LAMBDA r : r.success)),
     error_count |-> Len(SelectSeq(results, LAMBDA r : ~r.success))]

\* batchOperations is entered: the checks before the loop
BatchCall ==
    /\ bPc = "call"
    /\ IF OperationsRejected(bIsArray, bOps)
       THEN /\ bPc' = "done"
            /\ bReturn' = BatchThrow(RejectionMessage(bIsArray, bOps))
            /\ UNCHANGED bI
       ELSE /\ bPc' = "loop"
            /\ bI' = 1
            /\ UNCHANGED bReturn
    /\ UNCHANGED <<bIsArray, bOps, bCalendar, bCalendar0, bNextId, bResults, bGatewayLog>>
    /\ UNCHANGED notBatchVars

\* one iteration of the loop, the gateway answering the calls of the sub-action
BatchStep ==
    /\ bPc = "loop" /\ bI <= Len(bOps)
    /\ LET op == bOps[bI]
           record == SubActionResult(op, bCalendar, bNextId)
       IN  /\ bResults' = PushResult(bResults, record)
           /\ bCalendar' = SubActionCalendar(op, bCalendar, bNextId)
           /\ bNextId' = IF record.success /\ op.action = "create_event"
                         THEN bNextId + 1 ELSE bNextId
           /\ bGatewayLog' = IF CallsGateway(op) THEN Append(bGatewayLog, bI)
                             ELSE bGatewayLog
           /\ bI' = NextIndex(bI, Len(bOps), record)
    /\ UNCHANGED <<bIsArray, bOps, bCalendar0, bPc, bReturn>>
    /\ UNCHANGED notBatchVars

\* one iteration of the loop, a gateway call of the sub-action failing
BatchStepGatewayFails(error) ==
    /\ bPc = "loop" /\ bI <= Len(bOps)
    /\ CallsGateway(bOps[bI])
    /\ LET record == BatchCatch(bOps[bI].action, error)
       IN  /\ bResults' = PushResult(bResults, record)
           /\ bI' = NextIndex(bI, Len(bOps), record)
    /\ bGatewayLog' = Append(bGatewayLog, bI)
    /\ UNCHANGED <<bIsArray, bOps, bCalendar, bCalendar0, bNextId, bPc, bReturn>>
    /\ UNCHANGED notBatchVars

\* the loop is over: the tally is returned
BatchReturn ==
    /\ bPc = "loop" /\ bI > Len(bOps)
    /\ bPc' = "done"
    /\ bReturn' = BatchReturnValue(bOps, bResults)
    /\ UNCHANGED <<bIsArray, bOps, bCalendar, bCalendar0, bNextId, bI, bResults,
                   bGatewayLog>>
    /\ UNCHANGED notBatchVars

\* SpecBatch: one call of batchOperations; the calendar is empty or holds event 1
InitBatch ==
    /\ bIsArray \in BOOLEAN
    /\ bOps \in (IF bIsArray THEN Batches ELSE {<<>>})
    /\ bCalendar \in Calendars(1)
    /\ bCalendar0 = bCalendar
    /\ bNextId = Len(bCalendar) + 1
    /\ bI = 0
    /\ bResults = <<>>
    /\ bPc = "call"
    /\ bReturn = NoBatchReturn
    /\ bGatewayLog = <<>>
    /\ SchedOff
    /\ DupOff
    /\ SimOff
    /\ RecOff
    /\ NotifyOff
    /\ RemOff
    /\ AuthOff
    /\ HookOff

NextBatch ==
    \/ BatchCall
    \/ BatchStep
    \/ \E error \in GatewayErrors : BatchStepGatewayFails(error)
    \/ BatchReturn

SpecBatch == InitBatch /\ [][NextBatch]_vars

-----------------------------------------------------------------------------
(* Properties of detectEventConflicts, checked under SpecDetect *)

\* the parameters request r gave to detectEventConflicts
CheckParams(r) == ConflictParams(action[r], params[r], eventUpdate[r])

TimeConflictIds(r) == {conflicts[r].timeConflicts[k].id : k \in DOMAIN conflicts[r].timeConflicts}
AttendeeConflictIds(r) ==
    {conflicts[r].attendeeConflicts[k].id : k \in DOMAIN conflicts[r].attendeeConflicts}

\* the listed events the scan loop does not skip
ScannedItems(r) ==
    {e \in Range(items[r]) :
        /\ ~(CheckParams(r).eventId # NoId /\ e.id = CheckParams(r).eventId)
        /\ e.status # "cancelled"}

SpansOverlap(s1, e1, s2, e2) == s1 < e2 /\ e1 > s2
SpansTouch(s1, e1, s2, e2) == e1 = s2 \/ e2 = s1

SharedEmails(r, e) ==
    {toLowerCase(a) : a \in Range(CheckParams(r).attendees)}
        \cap {toLowerCase(a) : a \in Range(e.attendees)}

\* C1: an event that the scan does not skip is reported as a time conflict exactly
\* when candidate.start < existing.end and candidate.end > existing.start; the test
\* answers the same with the two spans swapped, and spans that only touch are never
\* reported.
C1_HalfOpenOverlap ==
    \A r \in Procs : scanned[r] =>
        \A e \in ScannedItems(r) :
            LET cp == CheckParams(r)
            IN  /\ (e.id \in TimeConflictIds(r)) <=> (cp.start < e.end /\ cp.end > e.start)
                /\ (e.id \in TimeConflictIds(r))
                       <=> isTimeOverlap(e.start, e.end, cp.start, cp.end)
                /\ SpansTouch(cp.start, cp.end, e.start, e.end)
                       => e.id \notin TimeConflictIds(r)

C1_Witness ==
    \E r \in Procs : scanned[r] /\
        \E e1 \in ScannedItems(r), e2 \in ScannedItems(r) :
            /\ e1.id \in TimeConflictIds(r)
            /\ SpansTouch(CheckParams(r).start, CheckParams(r).end, e2.start, e2.end)
            /\ e2.id \notin TimeConflictIds(r)

\* C2: an event that the scan does not skip is recorded as an attendee conflict
\* exactly when checkAttendees is true, the two attendee lists share an email
\* compared case-insensitively, and the spans overlap; every attendee conflict is
\* also a time conflict, its conflictingAttendees are exactly the shared emails, and
\* with checkAttendees = false there is no attendee conflict.
C2_AttendeeConflicts ==
    \A r \in Procs : scanned[r] =>
        LET cp == CheckParams(r)
        IN  /\ \A e \in ScannedItems(r) :
                  (e.id \in AttendeeConflictIds(r))
                      <=> /\ cp.checkAttendees
                          /\ SharedEmails(r, e) # {}
                          /\ SpansOverlap(cp.start, cp.end, e.start, e.end)
            /\ AttendeeConflictIds(r) \subseteq TimeConflictIds(r)
            /\ \A k \in DOMAIN conflicts[r].attendeeConflicts :
                  \E e \in ScannedItems(r) :
                      /\ e.id = conflicts[r].attendeeConflicts[k].id
                      /\ Range(conflicts[r].attendeeConflicts[k].conflictingAttendees)
                             = SharedEmails(r, e)
            /\ ~cp.checkAttendees => conflicts[r].attendeeConflicts = <<>>

\* an attendee conflict found through an email that differs in case only
C2_Witness ==
    \E r \in Procs : scanned[r] /\
        \E k \in DOMAIN conflicts[r].attendeeConflicts :
            /\ conflicts[r].attendeeConflicts[k].conflictingAttendees = <<userLower>>
            /\ userLower \notin Range(EventById(items[r],
                                        conflicts[r].attendeeConflicts[k].id).attendees)

\* C3: an event whose id is the supplied eventId, and a cancelled event, is in
\* neither conflict list, whatever its span and attendees.
C3_SkippedNeverReported ==
    \A r \in Procs : scanned[r] =>
        \A e \in Range(items[r]) :
            (\/ CheckParams(r).eventId # NoId /\ e.id = CheckParams(r).eventId
             \/ e.status = "cancelled")
                => e.id \notin TimeConflictIds(r) \cup AttendeeConflictIds(r)

\* the excluded event and a cancelled event both overlap the candidate and share an
\* attendee with it
C3_Witness ==
    \E r \in Procs : scanned[r] /\
        \E e1 \in Range(items[r]), e2 \in Range(items[r]) :
            /\ CheckParams(r).eventId = e1.id /\ e1.status = "confirmed"
            /\ e2.status = "cancelled" /\ e2.id # e1.id
            /\ \A e \in {e1, e2} :
                  /\ SpansOverlap(CheckParams(r).start, CheckParams(r).end, e.start, e.end)
                  /\ CheckParams(r).checkAttendees /\ SharedEmails(r, e) # {}

\* C4: the result is null exactly when nothing was recorded (also for an empty
\* listing); a report has hasConflicts = true, an entry in one of the two lists, and
\* summary counts equal to the lengths of the lists.
C4_NullIffNoConflict ==
    \A r \in Procs : scanned[r] =>
        LET cp == CheckParams(r)
            rep == conflicts[r]
        IN  /\ rep.isNull <=> ~\E e \in ScannedItems(r) :
                                   SpansOverlap(cp.start, cp.end, e.start, e.end)
            /\ items[r] = <<>> => rep.isNull
            /\ ~rep.isNull =>
                  /\ rep.hasConflicts
                  /\ Len(rep.timeConflicts) + Len(rep.attendeeConflicts) > 0
                  /\ rep.timeConflictsCount = Len(rep.timeConflicts)
                  /\ rep.attendeeConflictsCount = Len(rep.attendeeConflicts)

\* a null result for a listing that is not empty
C4_Witness ==
    \E r \in Procs : scanned[r] /\ conflicts[r].isNull /\ Len(items[r]) = 2

\* C5 (as claimed): a candidate whose end is not after its start fails with an error
\* the caller can tell from a gateway or server error, before the gateway is
\* queried, and without a report.
C5_ValidationErrorKind ==
    \A r \in Procs :
        (pc[r] = "done" /\ action[r] = "detect_conflicts"
            /\ params[r].end <= params[r].start)
            => /\ outcome[r].status = "error"
               /\ outcome[r].error_type \notin {"server_error", "api_error"}
               /\ listCalls[r] = 0
               /\ ~scanned[r]

-----------------------------------------------------------------------------
(* Properties of create_event and update_event, checked under Spec *)

\* request r is a create_event whose insert was answered
Inserted(r) ==
    /\ action[r] = "create_event" /\ pc[r] = "done" /\ outcome[r].status = "success"

\* C6: a conflict-checked create_event or update_event without allowConflicts whose
\* check reported a conflict has issued no insert/update, and has failed with
\* scheduling_conflict, code 409, carrying the report.
C6_ConflictBlocksWrite ==
    \A r \in Procs :
        (/\ action[r] \in {"create_event", "update_event"}
         /\ params[r].checkConflicts /\ ~params[r].allowConflicts
         /\ scanned[r] /\ ~conflicts[r].isNull)
            => /\ writeCalls[r] = 0
               /\ pc[r] = "done"
               /\ outcome[r].status = "error"
               /\ outcome[r].error_type = "scheduling_conflict"
               /\ outcome[r].statusCode = 409
               /\ outcome[r].conflicts = conflicts[r]

\* an update_event refused because of an event another request created meanwhile
C6_Witness ==
    \E r \in Procs : \E q \in Procs \ {r} :
        /\ action[r] = "update_event" /\ Inserted(q)
        /\ params[r].checkConflicts /\ ~params[r].allowConflicts
        /\ scanned[r] /\ ~conflicts[r].isNull /\ pc[r] = "done"
        /\ outcome[r].statusCode = 409 /\ writeCalls[r] = 0
        /\ outcome[q].id \in TimeConflictIds(r)

\* C7: two conflict-checked creates with overlapping spans can both be inserted:
\* whenever that happened, each check was answered before the other's insert (it
\* did not list the other's event).
C7_CollisionOnlyByRace ==
    \A r \in Procs : \A q \in Procs \ {r} :
        (/\ Inserted(r) /\ Inserted(q)
         /\ params[r].checkConflicts /\ ~params[r].allowConflicts
         /\ params[q].checkConflicts /\ ~params[q].allowConflicts
         /\ SpansOverlap(params[r].start, params[r].end, params[q].start, params[q].end))
            => /\ ~HasEvent(items[r], outcome[q].id)
               /\ ~HasEvent(items[q], outcome[r].id)

\* both checks found nothing, both events are in the calendar, and they overlap
C7_Witness ==
    \E r \in Procs : \E q \in Procs \ {r} :
        /\ Inserted(r) /\ Inserted(q)
        /\ params[r].checkConflicts /\ ~params[r].allowConflicts
        /\ params[q].checkConflicts /\ ~params[q].allowConflicts
        /\ scanned[r] /\ scanned[q] /\ conflicts[r].isNull /\ conflicts[q].isNull
        /\ HasEvent(calendar, outcome[r].id) /\ HasEvent(calendar, outcome[q].id)
        /\ LET er == EventById(calendar, outcome[r].id)
               eq == EventById(calendar, outcome[q].id)
           IN  er.id # eq.id /\ SpansOverlap(er.start, er.end, eq.start, eq.end)

-----------------------------------------------------------------------------
(* Properties of findDuplicateEvents, checked under SpecDup *)

\* 10 * denominator * (0.7 * summarySimilarity + 0.3 * timeProximity), timeProximity
\* being 1 for starts less than 48 hours apart
WeightedScore(event1, event2) ==
    LET sim == calculateSimilarity(event1.summary, event2.summary)
        close == event1.start - event2.start < 48 /\ event2.start - event1.start < 48
    IN  7 * sim[1] + (IF close THEN 3 * sim[2] ELSE 0)

ScaledThreshold(event1, event2) ==
    dThreshold * calculateSimilarity(event1.summary, event2.summary)[2]

GroupsInProgress ==
    Range(duplicateGroups) \cup (IF duplicates = <<>> THEN {} ELSE {duplicates})

\* C9: in every group each member other than the first is a duplicate pair with
\* the first member, the anchor.
C9_StarAroundAnchor ==
    \A g \in GroupsInProgress :
        \A k \in 2..Len(g) : arePotentialDuplicates(g[1], g[k], dThreshold)

\* an event left out of a group although it is a duplicate pair with a member that
\* is not the anchor, and a group with two members that are no pair
C9_Witness ==
    /\ dPc = "done"
    /\ \E g \in Range(duplicateGroups) : \E e \in Range(dEvents) \ Range(g) :
          /\ e.id > g[1].id
          /\ ~arePotentialDuplicates(g[1], e, dThreshold)
          /\ \E k \in 2..Len(g) : arePotentialDuplicates(g[k], e, dThreshold)

C9_WitnessMembersNoPair ==
    /\ dPc = "done"
    /\ \E g \in Range(duplicateGroups) : \E k \in 2..Len(g) : \E m \in 2..Len(g) :
          ~arePotentialDuplicates(g[k], g[m], dThreshold)

GroupIds(g) == {g[k].id : k \in DOMAIN g}

\* star clustering as section 4.2 states it, from event i on
RECURSIVE StarGroups(_, _, _, _)
StarGroups(events, i, processed, threshold) ==
    IF i > Len(events) THEN <<>>
    ELSE IF i \in processed THEN StarGroups(events, i + 1, processed, threshold)
    ELSE LET members == {j \in (i + 1)..Len(events) :
                            /\ j \notin processed
                            /\ WeightedScore(events[i], events[j])
                                   >= threshold * calculateSimilarity(events[i].summary,
                                                                      events[j].summary)[2]}
         IN  IF members = {} THEN StarGroups(events, i + 1, processed, threshold)
             ELSE <<SelectSeq(events, LAMBDA e : e.id = i \/ e.id \in members)>>
                      \o StarGroups(events, i + 1, processed \cup members \cup {i},
                                    threshold)

\* C10: the groups are pairwise disjoint, no event is twice in a group, the groups
\* come in the input order of their first members, and the result is the one the
\* input order and the threshold determine.
C10_DisjointOrdered ==
    /\ \A a \in DOMAIN duplicateGroups : \A b \in DOMAIN duplicateGroups :
          /\ a # b => GroupIds(duplicateGroups[a]) \cap GroupIds(duplicateGroups[b]) = {}
          /\ a < b => duplicateGroups[a][1].id < duplicateGroups[b][1].id
    /\ \A g \in GroupsInProgress : Cardinality(GroupIds(g)) = Len(g)
    /\ dPc = "done" => duplicateGroups = StarGroups(dEvents, 1, {}, dThreshold)

\* two groups, the second one anchored at an event the first anchor passed over
C10_Witness ==
    /\ dPc = "done" /\ Len(duplicateGroups) = 2
    /\ duplicateGroups[2][1].id < duplicateGroups[1][Len(duplicateGroups[1])].id

\* event k of the listing is a duplicate pair with some other event of the listing
HasPartner(k) ==
    \E m \in DOMAIN dEvents :
        /\ m # k
        /\ arePotentialDuplicates(dEvents[Min(k, m)], dEvents[Max(k, m)], dThreshold)

\* C11 (as claimed): every emitted group has at least 2 events, an event without a
\* duplicate partner is in no group, and the returned count always equals the
\* number of groups, also for an empty listing.
C11_CountAlways ==
    /\ \A g \in Range(duplicateGroups) : Len(g) >= 2
    /\ dPc = "done" =>
          \A k \in DOMAIN dEvents :
              ~HasPartner(k) => \A g \in Range(duplicateGroups) : k \notin GroupIds(g)
    /\ dPc = "done" => (dResult.hasCount /\ dResult.count = Len(duplicateGroups))

\* C11 (amended): every emitted group has at least 2 events; an event without a
\* duplicate partner is in no group, so an empty listing and a listing of mutually
\* dissimilar events give no group; for a non-empty listing the returned count
\* equals the number of groups, and for an empty listing the returned object has a
\* message and no count.
C11_GroupsOfTwoOrMore ==
    /\ \A g \in Range(duplicateGroups) : Len(g) >= 2
    /\ dPc = "done" =>
          /\ \A k \in DOMAIN dEvents :
                ~HasPartner(k) => \A g \in Range(duplicateGroups) : k \notin GroupIds(g)
          /\ (\A k \in DOMAIN dEvents : ~HasPartner(k)) => duplicateGroups = <<>>
    /\ (dPc = "done" /\ Len(dEvents) > 0)
          => (dResult.hasCount /\ dResult.count = Len(duplicateGroups))
    /\ (dPc = "done" /\ Len(dEvents) = 0)
          => (~dResult.hasCount /\ dResult.hasMessage /\ duplicateGroups = <<>>)

\* a listing with one group and an event without a partner, which is in no group
C11_Witness ==
    /\ dPc = "done" /\ Len(duplicateGroups) = 1 /\ dResult.count = 1
    /\ \E k \in DOMAIN dEvents : ~HasPartner(k)

\* a listing of two or more events, mutually dissimilar: no group, count 0
C11_WitnessDissimilar ==
    /\ dPc = "done" /\ Len(dEvents) >= 2 /\ duplicateGroups = <<>>
    /\ dResult.hasCount /\ dResult.count = 0

-----------------------------------------------------------------------------
(* Properties of calculateSimilarity, checked under SpecSim *)

Head1(str) == str[1]
Tail1(str) == [k \in 1..(Len(str) - 1) |-> str[k + 1]]

\* the Levenshtein distance by its defining recursion: insert, delete and
\* substitute cost 1 each
RECURSIVE Lev(_, _)
Lev(a, b) ==
    IF Len(a) = 0 THEN Len(b)
    ELSE IF Len(b) = 0 THEN Len(a)
    ELSE IF Head1(a) = Head1(b) THEN Lev(Tail1(a), Tail1(b))
    ELSE 1 + Min3(Lev(Tail1(a), b), Lev(a, Tail1(b)), Lev(Tail1(a), Tail1(b)))

\* C12 (as claimed): for non-empty str1 and str2 the score equals
\* 1 - Lev(lower(str1), lower(str2)) / max(len(str1), len(str2)); every score lies in
\* [0, 1]; the score is 1 when the lower-cased non-empty strings are identical.
C12_ByOriginalLengths ==
    simPc = "done" =>
        /\ simScore[2] > 0 /\ 0 <= simScore[1] /\ simScore[1] <= simScore[2]
        /\ (simStr1 # <<>> /\ simStr2 # <<>>) =>
              LET maxLen == Max(Len(simStr1), Len(simStr2))
                  lev == Lev(toLowerCase(simStr1), toLowerCase(simStr2))
              IN  /\ simScore[1] * maxLen = (maxLen - lev) * simScore[2]
                  /\ toLowerCase(simStr1) = toLowerCase(simStr2)
                        => simScore[1] = simScore[2]

\* C12 (amended): for non-empty str1 and str2 the score equals
\* 1 - Lev(lower(str1), lower(str2)) / max(len(lower(str1)), len(lower(str2))); every
\* score lies in [0, 1]; the score is 1 when the lower-cased non-empty strings are
\* identical.
C12_NormalizedEditDistance ==
    simPc = "done" =>
        /\ simScore[2] > 0 /\ 0 <= simScore[1] /\ simScore[1] <= simScore[2]
        /\ (simStr1 # <<>> /\ simStr2 # <<>>) =>
              LET maxLen == Max(Len(toLowerCase(simStr1)), Len(toLowerCase(simStr2)))
                  lev == Lev(toLowerCase(simStr1), toLowerCase(simStr2))
              IN  /\ simScore[1] * maxLen = (maxLen - lev) * simScore[2]
                  /\ toLowerCase(simStr1) = toLowerCase(simStr2)
                        => simScore[1] = simScore[2]

\* two strings of the same lower-cased length, different at every position, whose
\* distance is smaller than that length: it needs an insertion and a deletion
C12_Witness ==
    /\ simPc = "done"
    /\ simStr1 = <<"A", DottedCapitalI>> /\ simStr2 = <<DottedCapitalI, "a">>
    /\ simScore = <<1, 3>>

\* a string whose lower-case form is longer than the string
C12_WitnessLonger ==
    /\ simPc = "done" /\ simStr1 = <<DottedCapitalI>> /\ simStr2 = <<"b">>
    /\ simScore = <<0, 2>>

C12_WitnessCase ==
    /\ simPc = "done" /\ simStr1 # simStr2 /\ simStr1 # <<>>
    /\ toLowerCase(simStr1) = toLowerCase(simStr2) /\ simScore = <<1, 1>>

\* C13: the score does not depend on the order of the two strings, and the pair
\* test does not depend on which of the two events comes first.
C13_Symmetric ==
    simPc = "done" =>
        /\ simScore[1] * simScoreSwapped[2] = simScoreSwapped[1] * simScore[2]
        /\ simPair = simPairSwapped

\* strings of different lengths, and strings that differ only in letter case
C13_Witness ==
    /\ simPc = "done" /\ simStr1 # <<>> /\ simStr2 # <<>>
    /\ Len(simStr1) < Len(simStr2) /\ simScore[1] > 0 /\ simScore[1] < simScore[2]
    /\ simPair

C13_WitnessEmpty ==
    /\ simPc = "done" /\ simStr1 = <<>> /\ simStr2 # <<>> /\ simScoreSwapped[1] = 0

\* C14: the score is 0 whenever one of the strings is empty, also when both are,
\* and the distance table is not filled then.
C14_EmptyScoresZero ==
    (simPc = "done" /\ (simStr1 = <<>> \/ simStr2 = <<>>))
        => (simScore[1] = 0 /\ ~simDistance)

\* both strings empty: identical, and still scored 0; such a pair of events is a
\* duplicate pair only through the time proximity
C14_Witness ==
    /\ simPc = "done" /\ simStr1 = <<>> /\ simStr2 = <<>>
    /\ simScore[1] = 0 /\ ~simPair

-----------------------------------------------------------------------------
(* Properties of createEventException and deleteEventInstance, checked under SpecRec *)

\* the calendar date, in UTC, of a timestamp
UtcDay(stamp) == (stamp.clock - stamp.offset) \div 24

\* the enumerated instances that have an originalStartTime on the target's date
MatchingIndexes ==
    {k \in DOMAIN recItems :
        /\ recItems[k].hasOriginalStartTime
        /\ UtcDay(recItems[k].originalStartTime) = UtcDay(recTarget)}

\* the function ended without a gateway error and past the recurrence check
RecResolutionEnded ==
    /\ recPc = "done" /\ recOutcome.code = "none"
    /\ recOutcome.message # NotRecurringMessage

\* the update and delete requests issued so far
RecWrites == SelectSeq(recCalls, LAMBDA c : c[1] \in {"update", "delete"})

\* C15: the instance chosen is the first one, in enumeration order, whose
\* originalStartTime falls on the same UTC calendar date as the requested
\* originalStartTime; the time of day is not compared and instances without an
\* originalStartTime never match.
C15_FirstInstanceOfDate ==
    /\ recInstance # 0 =>
          /\ recInstance \in MatchingIndexes
          /\ \A k \in MatchingIndexes : recInstance <= k
    /\ RecResolutionEnded =>
          IF MatchingIndexes = {} THEN recInstance = 0 ELSE recInstance # 0

\* two instances on the target's date, both at another time of day than the
\* target: the first is chosen
C15_Witness ==
    /\ recPc = "done" /\ recOutcome.status = "success" /\ recInstance = 1
    /\ MatchingIndexes = {1, 2}
    /\ \A k \in {1, 2} :
          recItems[k].originalStartTime.clock - recItems[k].originalStartTime.offset
              # recTarget.clock - recTarget.offset

\* an instance without originalStartTime is passed over
C15_WitnessNoOriginalStart ==
    /\ recPc = "done" /\ recOutcome.status = "success" /\ recInstance = 2
    /\ ~recItems[1].hasOriginalStartTime

\* C16: an update or delete request is issued only for the id of the instance the
\* date match resolved, never for the master event's id; when no enumerated
\* instance matches, the function fails with the instance-not-found error and
\* issues no update or delete.
C16_WritesOnlyResolvedInstance ==
    /\ Len(RecWrites) <= 1
    /\ \A k \in DOMAIN RecWrites :
          /\ MatchingIndexes # {}
          /\ RecWrites[k][1] = WriteOperation(recAction)
          /\ RecWrites[k][2] = recItems[recInstance].id
          /\ \E m \in MatchingIndexes : RecWrites[k][2] = recItems[m].id
          /\ RecWrites[k][2] # RecurringEventId
    /\ (RecResolutionEnded /\ MatchingIndexes = {}) =>
          /\ recOutcome.status = "error"
          /\ recOutcome.message = NotFoundMessage
          /\ RecWrites = <<>>

\* instances are enumerated, none is on the target's date: the not-found error
C16_Witness ==
    /\ recPc = "done" /\ recOutcome.message = NotFoundMessage
    /\ Len(recItems) = 2 /\ recItems[1].hasOriginalStartTime
    /\ recMaster.recurrence /\ RecWrites = <<>>

\* the second instance is resolved and written
C16_WitnessWrite ==
    /\ recPc = "done" /\ recOutcome.status = "success"
    /\ recItems[1].hasOriginalStartTime
    /\ RecWrites = <<<<WriteOperation(recAction), InstanceId(2)>>>>

\* C17 (as claimed): when the master event has no recurrence rule, both functions
\* fail with the not-recurring error, which is not the instance-not-found error,
\* before the instances are enumerated, and issue no update or delete.
C17_NotRecurringRejected ==
    (recMaster.exists /\ ~recMaster.recurrence) =>
        /\ \A k \in DOMAIN recCalls : recCalls[k][1] = "get"
        /\ (recPc = "done" /\ recOutcome.code = "none") =>
              /\ recOutcome.status = "error"
              /\ recOutcome.message = NotRecurringMessage
              /\ recOutcome.message # NotFoundMessage

-----------------------------------------------------------------------------
(* Properties of batchOperations, checked under SpecBatch *)

BatchReturned == bPc = "done" /\ bReturn.status = "success"

\* the calendar that the successful sub-actions reported in results[k..] make of cal
RECURSIVE Replay(_, _)
Replay(cal, k) ==
    IF k > Len(bResults) THEN cal
    ELSE IF ~bResults[k].success THEN Replay(cal, k + 1)
    ELSE IF bResults[k].action = "create_event" THEN
        Replay(Append(cal, [id |-> bResults[k].id,
                            start |-> bOps[k].parameters.start,
                            end |-> bOps[k].parameters.end,
                            status |-> "confirmed", hasAttendees |-> FALSE,
                            attendees |-> <<>>]), k + 1)
    ELSE IF bResults[k].action = "delete_event" THEN
        Replay(SelectSeq(cal, LAMBDA e : e.id # bOps[k].parameters.eventId), k + 1)
    ELSE Replay(cal, k + 1)

\* C18: the sub-actions reach the gateway one after another in list order; when the
\* batch returns, every sub-action that passes the checks of its case has been
\* executed, whatever failed before it; and the calendar holds the effects of all
\* successful sub-actions, whatever failed after them.
C18_SequentialNoRollback ==
    /\ \A a \in DOMAIN bGatewayLog : \A b \in DOMAIN bGatewayLog :
          a < b => bGatewayLog[a] < bGatewayLog[b]
    /\ \A a \in DOMAIN bGatewayLog : bGatewayLog[a] < bI \/ bPc = "done"
    /\ BatchReturned =>
          \A k \in DOMAIN bOps :
              (bOps[k].action \in BatchActions /\ bOps[k].parameters.complete)
                  => \E a \in DOMAIN bGatewayLog : bGatewayLog[a] = k
    /\ Len(bResults) <= Len(bOps) => bCalendar = Replay(bCalendar0, 1)

\* a create_event that succeeds, a sub-action that fails, a sub-action that succeeds;
\* the created event is still there
C18_Witness ==
    /\ BatchReturned /\ Len(bResults) = 3
    /\ bResults[1].success /\ bResults[1].action = "create_event"
    /\ ~bResults[2].success /\ bResults[2].error_type = "api_error"
    /\ bResults[3].success
    /\ \E k \in DOMAIN bCalendar : bCalendar[k].id = bResults[1].id

\* C19: results has one record per sub-action handled so far, in input order, each
\* with the action name of its operation; the returned operations_count is the
\* number of operations and of records, and success_count + error_count equals it.
C19_OneResultPerOperation ==
    /\ bPc = "loop" => Len(bResults) = bI - 1
    /\ Len(bResults) <= Len(bOps)
    /\ \A k \in DOMAIN bResults : k <= Len(bOps) => bResults[k].action = bOps[k].action
    /\ BatchReturned =>
          /\ Len(bResults) = Len(bOps)
          /\ bReturn.operations_count = Len(bOps)
          /\ bReturn.success_count + bReturn.error_count = bReturn.operations_count
          /\ bReturn.success_count = Cardinality({k \in DOMAIN bResults : bResults[k].success})

\* a success, a validation failure and a gateway error in one batch
C19_Witness ==
    /\ BatchReturned /\ bReturn.success_count = 1 /\ bReturn.error_count = 2
    /\ \E k \in DOMAIN bResults : bResults[k].error_type = "validation_error"
    /\ \E k \in DOMAIN bResults : bResults[k].error_type = "server_error"

\* C20: when operations is not an array or is empty, or some operation has no action
\* or no parameters, the call fails and no sub-action is executed: no result, no
\* gateway call, no change of the calendar.
C20_MalformedBatchRejected ==
    (\/ ~bIsArray
     \/ Len(bOps) = 0
     \/ \E k \in DOMAIN bOps : ~bOps[k].hasAction \/ ~bOps[k].hasParameters)
        => /\ bResults = <<>>
           /\ bGatewayLog = <<>>
           /\ bCalendar = bCalendar0
           /\ bPc = "done" => bReturn.status = "error"
           /\ bPc # "loop"

\* two well-formed sub-actions that would reach the gateway, then an operation
\* without parameters
C20_Witness ==
    /\ bPc = "done" /\ bReturn.status = "error" /\ Len(bOps) = 3
    /\ bOps[1].action = "create_event" /\ bOps[1].parameters.complete
    /\ bOps[2].action = "delete_event"
    /\ ~bOps[3].hasParameters
    /\ bReturn.message = "Each operation must have parameters"

-----------------------------------------------------------------------------
(* Further properties of create_event and update_event, checked under Spec *)

\* request r issued the listing and ended without an answer to it: the listing failed
ListingFailed(r) == pc[r] = "done" /\ listCalls[r] > 0 /\ ~scanned[r]

C22_ConflictsReturnedAsWarning ==
    \A r \in Procs :
        (/\ action[r] \in {"create_event", "update_event"}
         /\ params[r].checkConflicts /\ params[r].allowConflicts
         /\ scanned[r] /\ ~conflicts[r].isNull)
            => /\ writeCalls[r] = 1
               /\ pc[r] = "done" =>
                     /\ outcome[r].status = "success"
                     /\ outcome[r].conflicts = conflicts[r]

-----------------------------------------------------------------------------
(* sendNotification (notifications.js) *)

\* the largest options.maxRetries a caller passes; 0 stands for an absent option
MaxRetriesOption == 3

\* how a fetch settles: a response with a status, or a rejection with error.code
FetchResponses ==
    {[rejected |-> FALSE, status |-> s, code |-> "none"] : s \in {200, 404, 500, 503}}
FetchRejections ==
    {[rejected |-> TRUE, status |-> 0, code |-> c] :
        c \in {"ECONNRESET", "ETIMEDOUT", "ECONNREFUSED", "ENOTFOUND", "none"}}
FetchOutcomes == FetchResponses \union FetchRejections

\* response.ok of node-fetch
ResponseOk(settled) == ~settled.rejected /\ settled.status >= 200 /\ settled.status < 300

\* an Error: the status of 'Failed to send notification: <status>', or the code of
\* the error a fetch rejected with
NotifyError(status, code) == [status |-> status, code |-> code]
NullError == NotifyError(0, "null")
TestError == NotifyError(0, "Test error for notification")

\* const maxRetries = options.maxRetries || 3
maxRetriesOf(option) == IF option = 0 THEN 3 ELSE option

\* while (attempts < maxRetries)
LoopContinues(attempts, maxRetries) == attempts < maxRetries

\* response.status >= 500 && response.status < 600
IsServerError(status) == status >= 500 /\ status < 600

\* error.code === 'ECONNRESET' || error.code === 'ETIMEDOUT' || error.code === 'ECONNREFUSED'
IsNetworkErrorAnyCode(error) == error.code # "null"
IsNetworkError(error) == error.code \in {"ECONNRESET", "ETIMEDOUT", "ECONNREFUSED"}

NotifyResult(status, error) == [status |-> status, error |-> error]
NoNotifyResult == NotifyResult("none", NullError)

\* entry: the test environment returns or throws without any fetch
NotifyCall ==
    /\ nPc = "call"
    /\ IF nEnv = "test"
       THEN /\ nPc' = "done"
            /\ nResult' = IF nAddress = "error-test"
                          THEN NotifyResult("thrown", TestError)
                          ELSE NotifyResult("returned", NullError)
       ELSE /\ nPc' = "loop"
            /\ UNCHANGED nResult
    /\ UNCHANGED <<nEnv, nAddress, nMaxRetries, nAttempts, nLastError, nLog>>
    /\ UNCHANGED notNotifyVars

\* the loop test; on exit: throw lastError
NotifyLoop ==
    /\ nPc = "loop"
    /\ IF LoopContinues(nAttempts, nMaxRetries)
       THEN /\ nAttempts' = nAttempts + 1
            /\ nPc' = "fetch"
            /\ UNCHANGED nResult
       ELSE /\ nPc' = "done"
            /\ nResult' = NotifyResult("thrown", nLastError)
            /\ UNCHANGED nAttempts
    /\ UNCHANGED <<nEnv, nAddress, nMaxRetries, nLastError, nLog>>
    /\ UNCHANGED notNotifyVars

\* the catch block, for the error thrown in the try block
NotifyCatch(error) ==
    /\ nLastError' = error
    /\ IF IsNetworkError(error)
       THEN /\ nPc' = (IF nAttempts < nMaxRetries THEN "delay" ELSE "loop")
            /\ UNCHANGED nResult
       ELSE /\ nPc' = "done"
            /\ nResult' = NotifyResult("thrown", error)

\* the fetch settles
NotifyFetch(settled) ==
    /\ nPc = "fetch"
    /\ nLog' = Append(nLog, settled)
    /\ IF settled.rejected
       THEN NotifyCatch(NotifyError(0, settled.code))
       ELSE IF ResponseOk(settled)
            THEN /\ nPc' = "done"
                 /\ nResult' = NotifyResult("returned", NullError)
                 /\ UNCHANGED nLastError
            ELSE IF IsServerError(settled.status) /\ nAttempts < nMaxRetries
                 THEN /\ nLastError' = NotifyError(settled.status, "none")
                      /\ nPc' = "delay"
                      /\ UNCHANGED nResult
                 ELSE NotifyCatch(NotifyError(settled.status, "none"))
    /\ UNCHANGED <<nEnv, nAddress, nMaxRetries, nAttempts>>
    /\ UNCHANGED notNotifyVars

\* the timer of the retry delay fires: continue
NotifyDelay ==
    /\ nPc = "delay"
    /\ nPc' = "loop"
    /\ UNCHANGED <<nEnv, nAddress, nMaxRetries, nAttempts, nLastError, nLog, nResult>>
    /\ UNCHANGED notNotifyVars

\* SpecNotify: one call of sendNotification; every fetch settles (it carries a
\* timeout) and every timer fires
InitNotify ==
    /\ nEnv \in {"test", "production"}
    /\ nAddress \in {"https://example.com/webhook", "error-test"}
    /\ \E option \in 0..MaxRetriesOption : nMaxRetries = maxRetriesOf(option)
    /\ nAttempts = 0
    /\ nLastError = NullError
    /\ nLog = <<>>
    /\ nPc = "call"
    /\ nResult = NoNotifyResult
    /\ SchedOff
    /\ DupOff
    /\ SimOff
    /\ RecOff
    /\ BatchOff
    /\ RemOff
    /\ AuthOff
    /\ HookOff

NextNotify ==
    \/ NotifyCall
    \/ NotifyLoop
    \/ \E settled \in FetchOutcomes : NotifyFetch(settled)
    \/ NotifyDelay

SpecNotify == InitNotify /\ [][NextNotify]_vars /\ WF_vars(NextNotify)

-----------------------------------------------------------------------------
(* Properties of sendNotification, checked under SpecNotify *)

C23_Transient(settled) ==
    \/ ~settled.rejected /\ settled.status >= 500 /\ settled.status <= 599
    \/ settled.rejected /\ settled.code \in {"ECONNRESET", "ETIMEDOUT", "ECONNREFUSED"}

C23_Attempts ==
    nEnv = "production" =>
        /\ Len(nLog) <= nMaxRetries
        /\ nAttempts <= nMaxRetries
        /\ \A i \in 1..(Len(nLog) - 1) : C23_Transient(nLog[i])
        /\ nPc = "done" =>
              /\ Len(nLog) >= 1
              /\ nResult.status = (IF ResponseOk(nLog[Len(nLog)]) THEN "returned" ELSE "thrown")
              /\ (\A i \in 1..Len(nLog) : C23_Transient(nLog[i])) => Len(nLog) = nMaxRetries
              /\ (~ResponseOk(nLog[1]) /\ ~C23_Transient(nLog[1])) => Len(nLog) = 1

-----------------------------------------------------------------------------
(* processReminders (notifications.js) and the table reminders_sent (db.js) *)

\* the events the gateway may list as upcoming are 1..MaxUpcoming, in start order
MaxUpcoming == 2
UpcomingIds == 1..MaxUpcoming
Webhooks == {"webhook1", "webhook2"}
\* the runs of processReminders that may be in flight together: the immediate run
\* of startReminderService and a run of its interval timer
Runs == {1, 2}

\* db.getRemindersSent(webhookId)
getRemindersSent(table, webhookId) == {row[2] : row \in {x \in table : x[1] = webhookId}}

\* response.data.items.filter(event => !sentReminders.includes(event.id))
upcomingEventsUnfiltered(listed, sentReminders) == listed
upcomingEvents(listed, sentReminders) == {id \in listed : id \notin sentReminders}

RemSettle(r, status, at) ==
    /\ rPc' = [rPc EXCEPT ![r] = "done"]
    /\ rOutcome' = [rOutcome EXCEPT ![r] = [status |-> status, at |-> at]]

\* processAllReminders calls processReminders(webhook.id); getWebhook and loadTokens
\* answer, or one of them yields nothing and the run throws
RemCall(r, webhookId, ready) ==
    /\ rPc[r] = "idle"
    /\ rWebhook' = [rWebhook EXCEPT ![r] = webhookId]
    /\ IF ready
       THEN /\ rPc' = [rPc EXCEPT ![r] = "list"]
            /\ UNCHANGED rOutcome
       ELSE RemSettle(r, "thrown", "setup")
    /\ UNCHANGED <<remindersSent, delivered, rItems, rSentRead, rTableAtRead, rUpcoming,
                   rSaved>>
    /\ UNCHANGED notRemVars

\* calendar.events.list answers
RemListResponse(r, listed) ==
    /\ rPc[r] = "list"
    /\ rItems' = [rItems EXCEPT ![r] = listed]
    /\ IF listed = {}
       THEN RemSettle(r, "returned", "list")
       ELSE /\ rPc' = [rPc EXCEPT ![r] = "read"]
            /\ UNCHANGED rOutcome
    /\ UNCHANGED <<remindersSent, delivered, rWebhook, rSentRead, rTableAtRead, rUpcoming,
                   rSaved>>
    /\ UNCHANGED notRemVars

\* calendar.events.list fails (outside the test environment)
RemListFails(r) ==
    /\ rPc[r] = "list"
    /\ RemSettle(r, "thrown", "list")
    /\ UNCHANGED <<remindersSent, delivered, rWebhook, rItems, rSentRead, rTableAtRead,
                   rUpcoming, rSaved>>
    /\ UNCHANGED notRemVars

\* db.getRemindersSent answers; the filter runs
RemReadSent(r) ==
    /\ rPc[r] = "read"
    /\ LET sentReminders == getRemindersSent(remindersSent, rWebhook[r])
           upcoming == upcomingEvents(rItems[r], sentReminders)
       IN  /\ rSentRead' = [rSentRead EXCEPT ![r] = sentReminders]
           /\ rTableAtRead' = [rTableAtRead EXCEPT ![r] = remindersSent]
           /\ rUpcoming' = [rUpcoming EXCEPT ![r] = upcoming]
           /\ IF upcoming = {}
              THEN RemSettle(r, "returned", "read")
              ELSE /\ rPc' = [rPc EXCEPT ![r] = "send"]
                   /\ UNCHANGED rOutcome
    /\ UNCHANGED <<remindersSent, delivered, rWebhook, rItems, rSaved>>
    /\ UNCHANGED notRemVars

\* sendNotification returns: the webhook address answered OK to the event_reminder
RemDelivered(r) ==
    /\ rPc[r] = "send"
    /\ delivered' = Append(delivered, [webhook |-> rWebhook[r], events |-> rUpcoming[r],
                                       run |-> r])
    /\ rPc' = [rPc EXCEPT ![r] = "record"]
    /\ UNCHANGED <<remindersSent, rWebhook, rItems, rSentRead, rTableAtRead, rUpcoming,
                   rSaved, rOutcome>>
    /\ UNCHANGED notRemVars

\* sendNotification throws
RemDeliveryFails(r) ==
    /\ rPc[r] = "send"
    /\ RemSettle(r, "thrown", "send")
    /\ UNCHANGED <<remindersSent, delivered, rWebhook, rItems, rSentRead, rTableAtRead,
                   rUpcoming, rSaved>>
    /\ UNCHANGED notRemVars

\* one turn of: for (const event of upcomingEvents) await db.saveReminderSent(...)
RemRecord(r) ==
    /\ rPc[r] = "record"
    /\ LET left == rUpcoming[r] \ rSaved[r]
           id == CHOOSE x \in left : \A y \in left : x <= y
       IN  /\ remindersSent' = remindersSent \union {<<rWebhook[r], id>>}
           /\ rSaved' = [rSaved EXCEPT ![r] = rSaved[r] \union {id}]
           /\ IF left = {id}
              THEN RemSettle(r, "returned", "record")
              ELSE UNCHANGED <<rPc, rOutcome>>
    /\ UNCHANGED <<delivered, rWebhook, rItems, rSentRead, rTableAtRead, rUpcoming>>
    /\ UNCHANGED notRemVars

\* SpecReminders: two runs of processReminders, each started at any time, over a
\* table that holds any rows of earlier runs
InitReminders ==
    /\ remindersSent \in SUBSET (Webhooks \X UpcomingIds)
    /\ delivered = <<>>
    /\ rPc = [r \in Runs |-> "idle"]
    /\ rWebhook = [r \in Runs |-> "none"]
    /\ rItems = [r \in Runs |-> {}]
    /\ rSentRead = [r \in Runs |-> {}]
    /\ rTableAtRead = [r \in Runs |-> {}]
    /\ rUpcoming = [r \in Runs |-> {}]
    /\ rSaved = [r \in Runs |-> {}]
    /\ rOutcome = [r \in Runs |-> [status |-> "none", at |-> "none"]]
    /\ SchedOff
    /\ DupOff
    /\ SimOff
    /\ RecOff
    /\ BatchOff
    /\ NotifyOff
    /\ AuthOff
    /\ HookOff

NextReminders ==
    \/ \E r \in Runs, w \in Webhooks, ready \in BOOLEAN : RemCall(r, w, ready)
    \/ \E r \in Runs, listed \in SUBSET UpcomingIds : RemListResponse(r, listed)
    \/ \E r \in Runs : RemListFails(r)
    \/ \E r \in Runs : RemReadSent(r)
    \/ \E r \in Runs : RemDelivered(r)
    \/ \E r \in Runs : RemDeliveryFails(r)
    \/ \E r \in Runs : RemRecord(r)

SpecReminders == InitReminders /\ [][NextReminders]_vars

-----------------------------------------------------------------------------
(* Properties of processReminders, checked under SpecReminders *)

\* the notifications of run r that the webhook address accepted
DeliveredBy(r) == {i \in 1..Len(delivered) : delivered[i].run = r}

C28_AtMostOneReminder ==
    \A w \in Webhooks, id \in UpcomingIds :
        Cardinality({i \in 1..Len(delivered) :
                        delivered[i].webhook = w /\ id \in delivered[i].events}) <= 1

-----------------------------------------------------------------------------
(* Authentication: the OAuth tokens and POST /mcp/execute (app.js), the API keys (db.js) *)

\* the days of the clock are 0..MaxDay, each of two hours
MaxDay == 1
\* the ids of the rows the table api_keys comes to hold
KeyIds == {1}
\* a key that no row holds
UnknownKey == Cardinality(KeyIds) + 1
Clocks == [day : 0..MaxDay, hour : {0, 1}]
ClockBefore(a, b) == a.day < b.day \/ (a.day = b.day /\ a.hour < b.hour)

DigitChars == <<"0", "1", "2", "3", "4", "5", "6", "7", "8", "9">>
\* the text of an instant as Date.prototype.toISOString writes it: date, "T", time
toISOString(t) == <<DigitChars[t.day + 1], "T", DigitChars[t.hour + 1]>>
\* the text of an instant as SQLite's datetime("now") writes it: date, " ", time
datetimeNow(t) == <<DigitChars[t.day + 1], " ", DigitChars[t.hour + 1]>>
DigitValue(c) == CHOOSE n \in 0..9 : DigitChars[n + 1] = c
\* the instant an ISO text denotes
instantOfIso(text) == [day |-> DigitValue(text[1]), hour |-> DigitValue(text[3])]

CharCode(c) == IF c = " " THEN 32 ELSE IF c = "T" THEN 84 ELSE 48 + DigitValue(c)
\* SQLite's > on two TEXT values: byte by byte
RECURSIVE TextGreater(_, _)
TextGreater(a, b) ==
    IF a = <<>> THEN FALSE
    ELSE IF b = <<>> THEN TRUE
    ELSE IF CharCode(Head(a)) # CharCode(Head(b)) THEN CharCode(Head(a)) > CharCode(Head(b))
    ELSE TextGreater(Tail(a), Tail(b))

\* a row of api_keys; expires_at is <<>> for NULL
KeyRow(is_active, expires_at) ==
    [exists |-> TRUE, is_active |-> is_active, expires_at |-> expires_at]
NoKeyRow == [exists |-> FALSE, is_active |-> FALSE, expires_at |-> <<>>]

\* SELECT * FROM api_keys WHERE key = ? AND is_active = 1
\*   AND (expires_at IS NULL OR expires_at > datetime("now"))
validateApiKey(table, key, now) ==
    /\ key \in DOMAIN table
    /\ table[key].exists
    /\ table[key].is_active
    /\ table[key].expires_at = <<>> \/ TextGreater(table[key].expires_at, datetimeNow(now))

\* what a presented key is at an instant
KeyStanding(table, key, now) ==
    IF key = 0 THEN "none"
    ELSE IF key \notin DOMAIN table \/ ~table[key].exists THEN "unknown"
    ELSE IF ~table[key].is_active THEN "revoked"
    ELSE IF table[key].expires_at # <<>> /\ ~ClockBefore(now, instantOfIso(table[key].expires_at))
         THEN "expired"
         ELSE "valid"

AuthResponse(statusCode, error_type, error, auth_url) ==
    [statusCode |-> statusCode, error_type |-> error_type, error |-> error,
     auth_url |-> auth_url]
NoAuthResponse == AuthResponse(0, "none", "none", FALSE)

\* if (!tokens)
NotAuthenticatedNever(t) == FALSE
NotAuthenticated(t) == t = "null"

AuthAnswer(response) ==
    /\ aPc' = "done"
    /\ aResponse' = response
    /\ aTokensSeen' = tokens

\* a POST /mcp/execute arrives; apiKeyAuth passes it on when it presents no key
AuthRequest(key, wellFormed) ==
    /\ aPc \in {"idle", "done"}
    /\ key \in KeyIds => apiKeys[key].exists
    /\ aKey' = key
    /\ aWellFormed' = wellFormed
    /\ aKeyStanding' = "none"
    /\ aKeyAccepted' = FALSE
    /\ aTokensSeen' = "none"
    /\ aResponse' = NoAuthResponse
    /\ aExecuted' = FALSE
    /\ aPc' = (IF key = 0 THEN "handler" ELSE "key")
    /\ UNCHANGED <<tokens, dbTokens, apiKeys, clock, revokedKeys, lPc, lResult>>
    /\ UNCHANGED notAuthVars

\* apiKeyAuth: db.validateApiKey answers
AuthValidateKey ==
    /\ aPc = "key"
    /\ aKeyStanding' = KeyStanding(apiKeys, aKey, clock)
    /\ aKeyAccepted' = validateApiKey(apiKeys, aKey, clock)
    /\ IF validateApiKey(apiKeys, aKey, clock)
       THEN /\ aPc' = "handler"
            /\ UNCHANGED <<aResponse, aTokensSeen>>
       ELSE AuthAnswer(AuthResponse(401, "authentication_error", "Invalid API key", FALSE))
    /\ UNCHANGED <<tokens, dbTokens, apiKeys, clock, revokedKeys, aKey, aWellFormed,
                   aExecuted, lPc, lResult>>
    /\ UNCHANGED notAuthVars

\* the handler of POST /mcp/execute up to the token check
AuthHandler ==
    /\ aPc = "handler"
    /\ IF ~aWellFormed
       THEN AuthAnswer(AuthResponse(400, "validation_error", "Action is required", FALSE))
       ELSE IF NotAuthenticated(tokens)
            THEN AuthAnswer(AuthResponse(200, "authentication_error", "Not authenticated", TRUE))
            ELSE /\ aPc' = (IF tokens = "expired" THEN "refresh" ELSE "action")
                 /\ aTokensSeen' = tokens
                 /\ UNCHANGED aResponse
    /\ UNCHANGED <<tokens, dbTokens, apiKeys, clock, revokedKeys, aKey, aWellFormed,
                   aKeyStanding, aKeyAccepted, aExecuted, lPc, lResult>>
    /\ UNCHANGED notAuthVars

\* oauth2Client.refreshToken answers: saveTokens(credentials), or the catch
AuthRefresh(ok) ==
    /\ aPc = "refresh"
    /\ IF ok
       THEN /\ tokens' = "fresh"
            /\ dbTokens' = "fresh"
            /\ aPc' = "action"
            /\ UNCHANGED <<aResponse, aTokensSeen>>
       ELSE /\ aPc' = "done"
            /\ aResponse' = AuthResponse(200, "authentication_error",
                                         "Authentication failed. Please log in again.", TRUE)
            /\ UNCHANGED <<tokens, dbTokens, aTokensSeen>>
    /\ UNCHANGED <<apiKeys, clock, revokedKeys, aKey, aWellFormed, aKeyStanding,
                   aKeyAccepted, aExecuted, lPc, lResult>>
    /\ UNCHANGED notAuthVars

\* the action switch runs and the handler answers
AuthExecute ==
    /\ aPc = "action"
    /\ aExecuted' = TRUE
    /\ aPc' = "done"
    /\ aResponse' = AuthResponse(200, "none", "none", FALSE)
    /\ UNCHANGED <<tokens, dbTokens, apiKeys, clock, revokedKeys, aKey, aWellFormed,
                   aKeyStanding, aKeyAccepted, aTokensSeen, lPc, lResult>>
    /\ UNCHANGED notAuthVars

\* GET /logout: revokeTokens up to oauth2Client.revokeToken
LogoutCall ==
    /\ lPc \in {"idle", "done"}
    /\ IF tokens = "null"
       THEN /\ lPc' = "done"
            /\ lResult' = "not_logged_in"
       ELSE /\ lPc' = "revoke"
            /\ lResult' = "none"
    /\ UNCHANGED <<tokens, dbTokens, apiKeys, clock, revokedKeys, aPc, aKey, aWellFormed,
                   aKeyStanding, aKeyAccepted, aTokensSeen, aResponse, aExecuted>>
    /\ UNCHANGED notAuthVars

\* oauth2Client.revokeToken answers
LogoutRevoke(ok) ==
    /\ lPc = "revoke"
    /\ IF ok
       THEN /\ lPc' = "delete"
            /\ UNCHANGED lResult
       ELSE /\ lPc' = "done"
            /\ lResult' = "revocation_failed"
    /\ UNCHANGED <<tokens, dbTokens, apiKeys, clock, revokedKeys, aPc, aKey, aWellFormed,
                   aKeyStanding, aKeyAccepted, aTokensSeen, aResponse, aExecuted>>
    /\ UNCHANGED notAuthVars

\* db.deleteTokens answers; tokens = null; return true
LogoutDelete ==
    /\ lPc = "delete"
    /\ dbTokens' = "null"
    /\ tokens' = "null"
    /\ lPc' = "done"
    /\ lResult' = "logged_out"
    /\ UNCHANGED <<apiKeys, clock, revokedKeys, aPc, aKey, aWellFormed, aKeyStanding,
                   aKeyAccepted, aTokensSeen, aResponse, aExecuted>>
    /\ UNCHANGED notAuthVars

\* GET /auth/google/callback with a code that getToken accepts: saveTokens(newTokens)
OAuthCallback ==
    /\ tokens' = "fresh"
    /\ dbTokens' = "fresh"
    /\ UNCHANGED <<apiKeys, clock, revokedKeys, aPc, aKey, aWellFormed, aKeyStanding,
                   aKeyAccepted, aTokensSeen, aResponse, aExecuted, lPc, lResult>>
    /\ UNCHANGED notAuthVars

\* Date.now() reaches tokens.expiry_date
TokensExpire ==
    /\ tokens = "fresh"
    /\ tokens' = "expired"
    /\ dbTokens' = (IF dbTokens = "fresh" THEN "expired" ELSE dbTokens)
    /\ UNCHANGED <<apiKeys, clock, revokedKeys, aPc, aKey, aWellFormed, aKeyStanding,
                   aKeyAccepted, aTokensSeen, aResponse, aExecuted, lPc, lResult>>
    /\ UNCHANGED notAuthVars

\* an hour passes
ClockTick ==
    /\ clock.hour = 0 \/ clock.day < MaxDay
    /\ clock' = (IF clock.hour = 0 THEN [clock EXCEPT !.hour = 1]
                 ELSE [day |-> clock.day + 1, hour |-> 0])
    /\ UNCHANGED <<tokens, dbTokens, apiKeys, revokedKeys, aPc, aKey, aWellFormed,
                   aKeyStanding, aKeyAccepted, aTokensSeen, aResponse, aExecuted, lPc,
                   lResult>>
    /\ UNCHANGED notAuthVars

\* POST /api/keys: db.generateApiKey(name, expiresAt)
CreateKey(hasExpiry, expiry) ==
    /\ tokens # "null"
    /\ \E id \in KeyIds :
          /\ ~apiKeys[id].exists
          /\ \A lower \in KeyIds : lower < id => apiKeys[lower].exists
          /\ apiKeys' = [apiKeys EXCEPT ![id] =
                            KeyRow(TRUE, IF hasExpiry THEN toISOString(expiry) ELSE <<>>)]
    /\ UNCHANGED <<tokens, dbTokens, clock, revokedKeys, aPc, aKey, aWellFormed,
                   aKeyStanding, aKeyAccepted, aTokensSeen, aResponse, aExecuted, lPc,
                   lResult>>
    /\ UNCHANGED notAuthVars

\* DELETE /api/keys/:id: db.revokeApiKey(id)
RevokeKey(id) ==
    /\ tokens # "null"
    /\ id \in KeyIds
    /\ apiKeys[id].exists
    /\ apiKeys' = [apiKeys EXCEPT ![id].is_active = FALSE]
    /\ revokedKeys' = revokedKeys \union {id}
    /\ UNCHANGED <<tokens, dbTokens, clock, aPc, aKey, aWellFormed, aKeyStanding,
                   aKeyAccepted, aTokensSeen, aResponse, aExecuted, lPc, lResult>>
    /\ UNCHANGED notAuthVars

\* SpecAuth: the server after start-up (loadTokens has run), one /mcp/execute request
\* at a time, with logouts, OAuth callbacks and key management in between its steps
InitAuth ==
    /\ tokens \in {"null", "fresh", "expired"}
    /\ dbTokens = tokens
    /\ apiKeys = [id \in KeyIds |-> NoKeyRow]
    /\ clock = [day |-> 0, hour |-> 0]
    /\ revokedKeys = {}
    /\ aPc = "idle"
    /\ aKey = 0
    /\ aWellFormed = FALSE
    /\ aKeyStanding = "none"
    /\ aKeyAccepted = FALSE
    /\ aTokensSeen = "none"
    /\ aResponse = NoAuthResponse
    /\ aExecuted = FALSE
    /\ lPc = "idle"
    /\ lResult = "none"
    /\ SchedOff
    /\ DupOff
    /\ SimOff
    /\ RecOff
    /\ BatchOff
    /\ NotifyOff
    /\ RemOff
    /\ HookOff

NextAuth ==
    \/ \E key \in {0, UnknownKey} \union KeyIds, wellFormed \in BOOLEAN :
          AuthRequest(key, wellFormed)
    \/ AuthValidateKey
    \/ AuthHandler
    \/ \E ok \in BOOLEAN : AuthRefresh(ok)
    \/ AuthExecute
    \/ LogoutCall
    \/ \E ok \in BOOLEAN : LogoutRevoke(ok)
    \/ LogoutDelete
    \/ OAuthCallback
    \/ TokensExpire
    \/ ClockTick
    \/ \E hasExpiry \in BOOLEAN, expiry \in Clocks : CreateKey(hasExpiry, expiry)
    \/ \E id \in KeyIds : RevokeKey(id)

SpecAuth == InitAuth /\ [][NextAuth]_vars

-----------------------------------------------------------------------------
(* Properties of authentication, checked under SpecAuth *)

\* a well-formed request was answered, or let through, while tokens was null
AnsweredWithoutTokens == aPc = "done" /\ aWellFormed /\ aTokensSeen = "null"

LogoutFailureKeepsTokens ==
    lPc = "done" /\ lResult = "revocation_failed" => tokens # "null" /\ dbTokens # "null"

C30_BadKeyRejected ==
    /\ aKeyStanding \in {"unknown", "expired", "revoked"} =>
          /\ ~aKeyAccepted
          /\ aPc = "done"
          /\ aResponse.statusCode = 401
          /\ ~aExecuted
    /\ \A id \in revokedKeys : ~apiKeys[id].is_active

-----------------------------------------------------------------------------
(* Completeness of detect_conflicts, checked under SpecPage *)

\* the ids of the time conflicts a detect_conflicts request reported
ReportedTimeConflicts(r) ==
    {outcome[r].conflicts.timeConflicts[j].id : j \in DOMAIN outcome[r].conflicts.timeConflicts}

\* C26 (as claimed): every event of the calendar that is not cancelled, is not the
\* excluded event and overlaps the candidate span is among the reported timeConflicts.
C26_EveryOverlapReported ==
    pc[1] = "done" /\ outcome[1].status = "success" =>
        \A k \in DOMAIN calendar :
            (/\ calendar[k].status # "cancelled"
             /\ ~(params[1].eventId # NoId /\ calendar[k].id = params[1].eventId)
             /\ params[1].start < calendar[k].end
             /\ params[1].end > calendar[k].start)
                => calendar[k].id \in ReportedTimeConflicts(1)

-----------------------------------------------------------------------------
(* POST /webhook/calendar and sendWebhookNotification (app.js) *)

\* the changes the calendar sees
MaxChanges == 3
\* db.getSyncToken resolved null: no sync token is stored for the channel
NoSyncToken == -1

\* calendar.events.list with the sync token: the changes after those the token
\* covers; without it (timeMin a day back): the recent events, here every change
ChangesSince(syncToken, head) ==
    IF syncToken = NoSyncToken THEN 1..head ELSE (syncToken + 1)..head

\* a push notification arrives for a registered channel: the handler acknowledges,
\* looks the channel up and, unless the state is 'sync', loads the tokens and the
\* sync token and issues the list call
HookNotification(state) ==
    /\ wPc \in {"idle", "done"}
    /\ wItems' = {}
    /\ IF state = "sync"
       THEN /\ wPc' = "done"
            /\ UNCHANGED wTokenRead
       ELSE /\ wPc' = "list"
            /\ wTokenRead' = wSyncToken
    /\ UNCHANGED <<wHead, wSyncToken, wFetched, wDelivered>>
    /\ UNCHANGED notHookVars

\* the list call answers: saveSyncToken(nextSyncToken), then the notification is
\* sent when there are items
HookListResponse ==
    /\ wPc = "list"
    /\ wItems' = ChangesSince(wTokenRead, wHead)
    /\ wFetched' = wFetched \union ChangesSince(wTokenRead, wHead)
    /\ wSyncToken' = wHead
    /\ wPc' = (IF ChangesSince(wTokenRead, wHead) = {} THEN "done" ELSE "send")
    /\ UNCHANGED <<wHead, wTokenRead, wDelivered>>
    /\ UNCHANGED notHookVars

\* the list call fails: 410 clears the stored sync token, anything else is logged
HookListFails(code) ==
    /\ wPc = "list"
    /\ wSyncToken' = (IF code = 410 THEN NoSyncToken ELSE wSyncToken)
    /\ wPc' = "done"
    /\ UNCHANGED <<wHead, wTokenRead, wItems, wFetched, wDelivered>>
    /\ UNCHANGED notHookVars

\* sendWebhookNotification: sendNotification returned
HookDelivered ==
    /\ wPc = "send"
    /\ wDelivered' = wDelivered \union wItems
    /\ wPc' = "done"
    /\ UNCHANGED <<wHead, wSyncToken, wTokenRead, wItems, wFetched>>
    /\ UNCHANGED notHookVars

\* sendWebhookNotification: sendNotification threw after its attempts; the error
\* is logged and not rethrown
HookDeliveryFails ==
    /\ wPc = "send"
    /\ wPc' = "done"
    /\ UNCHANGED <<wHead, wSyncToken, wTokenRead, wItems, wFetched, wDelivered>>
    /\ UNCHANGED notHookVars

\* an event of the calendar changes
CalendarChange ==
    /\ wHead < MaxChanges
    /\ wHead' = wHead + 1
    /\ UNCHANGED <<wSyncToken, wTokenRead, wItems, wFetched, wDelivered, wPc>>
    /\ UNCHANGED notHookVars

\* SpecWebhook: one registered channel; its notifications are handled one at a time
InitWebhook ==
    /\ wHead = 0
    /\ wSyncToken = NoSyncToken
    /\ wTokenRead = NoSyncToken
    /\ wItems = {}
    /\ wFetched = {}
    /\ wDelivered = {}
    /\ wPc = "idle"
    /\ SchedOff
    /\ DupOff
    /\ SimOff
    /\ RecOff
    /\ BatchOff
    /\ NotifyOff
    /\ RemOff
    /\ AuthOff

NextWebhook ==
    \/ \E state \in {"sync", "exists", "update", "delete"} : HookNotification(state)
    \/ HookListResponse
    \/ \E code \in {410, 500} : HookListFails(code)
    \/ HookDelivered
    \/ HookDeliveryFails
    \/ CalendarChange

SpecWebhook == InitWebhook /\ [][NextWebhook]_vars

-----------------------------------------------------------------------------
(* Properties of the push-notification handler, checked under SpecWebhook *)

\* C27 (as claimed): no change is lost: once the handler is through, every change it
\* fetched was delivered to the webhook address or is still ahead of the stored sync
\* token, so that a later notification fetches it again.
C27_NoChangeLost ==
    wPc \in {"idle", "done"} =>
        \A c \in wFetched \ wDelivered : wSyncToken = NoSyncToken \/ c > wSyncToken

-----------------------------------------------------------------------------
(* The answer to a gateway 404, checked under Spec *)

\* the calendar.events.get call of update_event was answered 404: the request is
\* through without a merged event
GetAnsweredNotFound(r) ==
    action[r] = "update_event" /\ pc[r] = "done" /\ eventUpdate[r] = NoEvent

\* C29 (as claimed): when the gateway answers 404 for the targeted event, the caller
\* receives HTTP 404 with error_type not_found_error, not a server_error.
C29_NotFoundErrorType ==
    \A r \in Procs :
        GetAnsweredNotFound(r) =>
            /\ outcome[r].status = "error"
            /\ outcome[r].error_type = "not_found_error"
            /\ outcome[r].statusCode = 404

====
